---- MODULE Spec2Model ----
(***************************************************************************)
(* A model of the service-mesh control plane of src/src/microservices:     *)
(* the LoadBalancer (load_balancer.py), the ServiceRegistry and           *)
(* ServiceDiscovery (service_discovery.py), and the HealthMonitor and      *)
(* ServiceOrchestrator (orchestration.py).                                 *)
(*                                                                         *)
(* A Python dict is a function whose DOMAIN is its key set.  A ServiceInfo *)
(* held by the load balancer is identified by its name and by its position *)
(* in LoadBalancer.services (two add_service calls with one name give two  *)
(* list entries).                                                          *)
(***************************************************************************)
EXTENDS Integers, Sequences, FiniteSets, TLC

\* Service names used as inputs of the operations.
Names == {"a", "b"}

\* Python's None.
None == "None"

\* ---- bounds of the model ----
\* Longest LoadBalancer.services list.
MaxServices == 2
\* Largest value of the round-robin cursor.
MaxIndex == 5
\* Largest connection counter.
MaxConn == 1
\* Largest number of record_failure calls counted for one name.
MaxFail == 3
\* The values of circuit_breaker_threshold the configuration draws from.
Thresholds == {1, 2}
\* Largest value of the clock.
MaxTime == 3
\* Largest length of the health monitor's service list.
MaxMonitored == 2
\* Largest consecutive_failures a probe counts up to.
MaxProbeFail == 2
\* Largest number of entries of health_change_callbacks.
MaxCallbacks == 1
\* Largest number of entries of health_change_callbacks where the callbacks
\* are of several kinds.
MaxNotified == 2
\* The (cleanup_interval, service_timeout, cache_ttl) the constructors draw
\* from: a sweep period above the timeout, as the defaults have, and below it.
RegConfigs == {<<2, 1, 1>>, <<1, 2, 2>>}

VARIABLES
    \* LoadBalancingConfig (fixed at construction)
    strategy, circuit_breaker_enabled, circuit_breaker_threshold,
    \* LoadBalancer fields
    services, current_index, connection_counts, circuit_breaker_states,
    failure_counts,
    \* the last load-balancer call: its name, its argument or its result
    lb_last,
    \* history of calls, kept for the properties only
    streak, tripped, removed, history,
    \* the clock: the value time.time() returns
    now,
    \* ServiceRegistry and ServiceDiscovery constructor arguments
    cleanup_interval, service_timeout, cache_ttl,
    \* ServiceRegistry fields: services, _running, _cleanup_task
    registry_services, running, cleanup_task,
    \* the number of _cleanup_loop tasks created and not ended
    sweep_tasks,
    \* the time the sweep's asyncio.sleep ends; a stop() call is awaiting
    wake, stop_waiting,
    \* ServiceDiscovery._cache
    cache,
    \* per name, the last entry discover_service stored, kept for the
    \* properties only
    stored,
    \* per name, what discover_service last answered, kept for the properties
    \* only
    answered,
    \* the last registry or discovery step: call, argument, result
    reg_last,
    \* OrchestrationConfig (fixed at construction)
    auto_restart_enabled, max_restart_attempts,
    \* HealthMonitor fields: services, health_status, _running, _monitor_task
    \* and health_change_callbacks (of each entry, what it is: the
    \* orchestrator's _handle_health_change, or a callback that raises)
    hm_services, health_status, hm_running, monitor_task,
    health_change_callbacks,
    \* the number of _monitor_loop tasks created and not ended
    monitor_tasks,
    \* the ServiceHealth objects that health_status or a probe refers to
    healths,
    \* the check_service_health tasks of the current cycle
    probes,
    \* a HealthMonitor.stop() call is at its await
    hm_stop_waiting,
    \* ServiceOrchestrator fields
    restart_attempts, deployment_tasks,
    \* the last monitor or orchestrator step: call, argument, result, and how
    \* many times it ran _notify_health_change and restart_service
    orch_last,
    \* per name, the restart_service calls since the last deploy_service (-1:
    \* never deployed) and whether undeploy_service has followed it, kept for
    \* the properties only
    restarts

lbconfig == <<strategy, circuit_breaker_enabled, circuit_breaker_threshold>>
lbfields == <<services, current_index, connection_counts,
              circuit_breaker_states, failure_counts>>
lbghost == <<streak, tripped, removed>>
lbvars == <<lbconfig, lbfields, lb_last, lbghost>>
regconfig == <<cleanup_interval, service_timeout, cache_ttl>>
regfields == <<registry_services, running, cleanup_task, sweep_tasks, wake,
               stop_waiting>>
regvars == <<now, regconfig, regfields, cache, stored, answered, reg_last>>
orchconfig == <<auto_restart_enabled, max_restart_attempts>>
hmfields == <<hm_services, health_status, hm_running, monitor_task,
              monitor_tasks, health_change_callbacks, healths, probes,
              hm_stop_waiting>>
orchfields == <<restart_attempts, deployment_tasks>>
orchvars == <<orchconfig, hmfields, orchfields, orch_last, restarts>>
vars == <<lbvars, history, regvars, orchvars>>

\* ---- Python dict operations ----
Get(d, k, dflt) == IF k \in DOMAIN d THEN d[k] ELSE dflt
Put(d, k, v) == [x \in (DOMAIN d) \cup {k} |-> IF x = k THEN v ELSE d[x]]
Pop(d, k) == [x \in (DOMAIN d) \ {k} |-> d[x]]
EmptyDict == [x \in {} |-> 0]

\* ---- LoadBalancingStrategy / LoadBalancingConfig ----
ROUND_ROBIN == "round_robin"
RANDOM == "random"
LEAST_CONNECTIONS == "least_connections"
\* config.strategy is a plain string: any other value falls through to the
\* last line of get_next_service.
Strategies == {ROUND_ROBIN, RANDOM, LEAST_CONNECTIONS, "other"}

\* ---- LoadBalancer ----
LBInit ==
    /\ strategy \in Strategies
    /\ circuit_breaker_enabled \in BOOLEAN
    /\ circuit_breaker_threshold \in Thresholds
    /\ services = <<>>
    /\ current_index = 0
    /\ connection_counts = EmptyDict
    /\ circuit_breaker_states = EmptyDict
    /\ failure_counts = EmptyDict
    /\ lb_last = [op |-> "init", name |-> None, pos |-> 0]
    /\ streak = [n \in Names |-> 0]
    /\ tripped = {}
    /\ removed = {}

\* The names of the services in the list.
ServiceNames == {services[i] : i \in 1..Len(services)}

\* The value get_next_service returns for the list entry at position pos.
ServiceAt(pos) == [op |-> "get_next_service", name |-> services[pos], pos |-> pos]
NoService == [op |-> "get_next_service", name |-> None, pos |-> 0]
Called(op, n) == [op |-> op, name |-> n, pos |-> 0]

\* add_service(service)
AddService(n) ==
    /\ Len(services) < MaxServices
    /\ services' = Append(services, n)
    /\ connection_counts' = Put(connection_counts, n, 0)
    /\ circuit_breaker_states' = Put(circuit_breaker_states, n, FALSE)
    /\ failure_counts' = Put(failure_counts, n, 0)
    /\ lb_last' = Called("add_service", n)
    /\ streak' = [streak EXCEPT ![n] = 0]
    /\ removed' = removed \ {n}
    /\ UNCHANGED <<lbconfig, current_index, tripped>>

\* A mutation of ServicesWithout: the list is left as it was.
ServicesWithout_kept(n) == services

\* [s for s in self.services if s.name != service_name]
ServicesWithout(n) == SelectSeq(services, LAMBDA s : s # n)

\* remove_service(service_name)
RemoveService(n) ==
    /\ services' = ServicesWithout(n)
    /\ connection_counts' = Pop(connection_counts, n)
    /\ circuit_breaker_states' = Pop(circuit_breaker_states, n)
    /\ failure_counts' = Pop(failure_counts, n)
    /\ lb_last' = Called("remove_service", n)
    /\ removed' = removed \cup {n}
    /\ UNCHANGED <<lbconfig, current_index, streak, tripped>>

\* A mutation of IsAvailable: a service the monitor holds UNHEALTHY is not
\* available either.
IsAvailable_healthy(i) ==
    /\ ~Get(circuit_breaker_states, services[i], FALSE)
    /\ services[i] \in DOMAIN health_status
           => healths[health_status[services[i]]].status # "unhealthy"

\* A mutation of IsAvailable: the circuit-breaker flag is not looked at.
IsAvailable_any(i) == TRUE

\* not self.circuit_breaker_states.get(s.name, False), for the entry at i
IsAvailable(i) == ~Get(circuit_breaker_states, services[i], FALSE)

\* available_services, as the positions of its entries in self.services
available_services ==
    SelectSeq([i \in 1..Len(services) |-> i], IsAvailable)

\* A mutation of RoundRobinPick: the cursor is not used.
RoundRobinPick_first(avail) == avail[1]

\* available_services[self.current_index % len(available_services)]
RoundRobinPick(avail) == avail[(current_index % Len(avail)) + 1]

\* A mutation of LeastConnectionsPick: the last of several minima is taken.
LeastConnectionsPick_last(avail) ==
    LET key(i) == Get(connection_counts, services[avail[i]], 0)
        lastMin == CHOOSE i \in 1..Len(avail) :
                       /\ \A j \in 1..Len(avail) : key(i) <= key(j)
                       /\ \A j \in (i + 1)..Len(avail) : key(j) > key(i)
    IN avail[lastMin]

\* min(available_services, key=connection_counts.get(s.name, 0)): Python's min
\* returns the first of several minima.
LeastConnectionsPick(avail) ==
    LET key(i) == Get(connection_counts, services[avail[i]], 0)
        firstMin == CHOOSE i \in 1..Len(avail) :
                        /\ \A j \in 1..Len(avail) : key(i) <= key(j)
                        /\ \A j \in 1..(i - 1) : key(j) > key(i)
    IN avail[firstMin]

\* The positions get_next_service may return (random.choice is any of them).
Picks(avail) ==
    IF strategy = ROUND_ROBIN THEN {RoundRobinPick(avail)}
    ELSE IF strategy = RANDOM THEN {avail[i] : i \in 1..Len(avail)}
    ELSE IF strategy = LEAST_CONNECTIONS THEN {LeastConnectionsPick(avail)}
    ELSE {avail[1]}

\* get_next_service()
GetNextService ==
    LET avail == available_services IN
    /\ strategy = ROUND_ROBIN => current_index < MaxIndex
    /\ IF avail = <<>>
       THEN /\ lb_last' = NoService
            /\ UNCHANGED current_index
       ELSE /\ \E pos \in Picks(avail) : lb_last' = ServiceAt(pos)
            /\ current_index' = IF strategy = ROUND_ROBIN
                                THEN current_index + 1 ELSE current_index
    /\ UNCHANGED <<lbconfig, services, connection_counts,
                   circuit_breaker_states, failure_counts, lbghost>>

\* increment_connection(service_name)
IncrementConnection(n) ==
    /\ Get(connection_counts, n, 0) < MaxConn
    /\ connection_counts' =
           IF n \in DOMAIN connection_counts
           THEN Put(connection_counts, n, connection_counts[n] + 1)
           ELSE connection_counts
    /\ lb_last' = Called("increment_connection", n)
    /\ UNCHANGED <<lbconfig, services, current_index, circuit_breaker_states,
                   failure_counts, lbghost>>

\* A mutation of Max0: no floor.
Max0_unfloored(x) == x

\* max(0, x - 1)
Max0(x) == IF x > 0 THEN x ELSE 0

\* decrement_connection(service_name)
DecrementConnection(n) ==
    /\ connection_counts' =
           IF n \in DOMAIN connection_counts
           THEN Put(connection_counts, n, Max0(connection_counts[n] - 1))
           ELSE connection_counts
    /\ lb_last' = Called("decrement_connection", n)
    /\ UNCHANGED <<lbconfig, services, current_index, circuit_breaker_states,
                   failure_counts, lbghost>>

\* A mutation of BreakerTrips: the comparison is strict.
BreakerTrips_strict(count) == count > circuit_breaker_threshold

\* self.failure_counts[service_name] >= self.config.circuit_breaker_threshold
BreakerTrips(count) == count >= circuit_breaker_threshold

\* A mutation of StatesAfterFailure: the flag is assigned on every failure,
\* from an equality test.
StatesAfterFailure_assigned(n, count) ==
    Put(circuit_breaker_states, n, count = circuit_breaker_threshold)

\* if failure_counts[name] >= threshold: circuit_breaker_states[name] = True
StatesAfterFailure(n, count) ==
    IF BreakerTrips(count)
    THEN Put(circuit_breaker_states, n, TRUE)
    ELSE circuit_breaker_states

\* A mutation of RecordsFailures: failures are recorded under any
\* configuration.
RecordsFailures_always == TRUE

\* if not self.config.circuit_breaker_enabled: return
RecordsFailures == circuit_breaker_enabled

\* record_failure(service_name)
RecordFailure(n) ==
    /\ streak[n] < MaxFail
    /\ streak' = [streak EXCEPT ![n] = @ + 1]
    /\ lb_last' = Called("record_failure", n)
    /\ IF ~RecordsFailures
       THEN UNCHANGED <<failure_counts, circuit_breaker_states, tripped>>
       ELSE LET count == Get(failure_counts, n, 0) + 1 IN
            /\ failure_counts' = Put(failure_counts, n, count)
            /\ circuit_breaker_states' = StatesAfterFailure(n, count)
            /\ tripped' = IF /\ streak'[n] >= circuit_breaker_threshold
                             /\ n \in ServiceNames
                          THEN tripped \cup {n} ELSE tripped
    /\ UNCHANGED <<lbconfig, services, current_index, connection_counts,
                   removed>>

\* A mutation of RecordSuccess: the failure count is reset, the flag is not.
RecordSuccess_count_only(n) ==
    /\ failure_counts' = Put(failure_counts, n, 0)
    /\ lb_last' = Called("record_success", n)
    /\ streak' = [streak EXCEPT ![n] = 0]
    /\ tripped' = tripped \ {n}
    /\ UNCHANGED <<lbconfig, services, current_index, connection_counts,
                   circuit_breaker_states, removed>>

\* record_success(service_name)
RecordSuccess(n) ==
    /\ failure_counts' = Put(failure_counts, n, 0)
    /\ circuit_breaker_states' = Put(circuit_breaker_states, n, FALSE)
    /\ lb_last' = Called("record_success", n)
    /\ streak' = [streak EXCEPT ![n] = 0]
    /\ tripped' = tripped \ {n}
    /\ UNCHANGED <<lbconfig, services, current_index, connection_counts,
                   removed>>

\* ---- ServiceInfo, ServiceRegistry, ServiceDiscovery ----

\* A ServiceInfo object as the registry holds it: id is the object's identity
\* (it tells the objects constructed for one name apart).
ServiceInfo(n, id, t) == [name |-> n, id |-> id, last_heartbeat |-> t]

\* Python's None where a ServiceInfo is expected.
NoInfo == ServiceInfo(None, 0, 0)

\* The reference to a ServiceInfo object, which is what the cache stores and
\* what discover_service returns: the object's name and identity.
Ref(info) == [name |-> info.name, id |-> info.id]

\* What the last step was: a call with its argument and result (read: whether
\* discover_service called registry.get_service), a sweep with the names it
\* found stale, or another background step.
RegCalled(op, n, ret, read) == [op |-> op, name |-> n, ret |-> ret, read |-> read]
Background(step) == RegCalled(step, None, None, FALSE)

RegInit ==
    /\ now = 0
    /\ \E c \in RegConfigs :
           /\ cleanup_interval = c[1]
           /\ service_timeout = c[2]
           /\ cache_ttl = c[3]
    /\ registry_services = EmptyDict
    /\ running = FALSE
    /\ cleanup_task = "none"
    /\ sweep_tasks = 0
    /\ wake = 0
    /\ stop_waiting = FALSE
    /\ cache = EmptyDict
    /\ stored = EmptyDict
    /\ answered = [n \in Names |-> "other"]
    /\ reg_last = Background("init")

\* Time passes.
Tick ==
    /\ now < MaxTime
    /\ now' = now + 1
    /\ reg_last' = Background("tick")
    /\ UNCHANGED <<regconfig, regfields, cache, stored, answered>>

\* A mutation of IsNone: a task is created whatever the field holds.
IsNone_always(task) == TRUE

\* self._cleanup_task is None, self._monitor_task is None
IsNone(task) == task = "none"

\* ServiceRegistry.start()
Start ==
    /\ running' = TRUE
    /\ IF IsNone(cleanup_task)
       THEN cleanup_task' = "pending" /\ sweep_tasks' = sweep_tasks + 1
       ELSE UNCHANGED <<cleanup_task, sweep_tasks>>
    /\ reg_last' = RegCalled("start", None, None, FALSE)
    /\ UNCHANGED <<now, regconfig, registry_services, wake, stop_waiting,
                   cache, stored, answered>>

\* _cleanup_loop, from its creation to its first asyncio.sleep
TaskBegin ==
    /\ cleanup_task = "pending"
    /\ IF running
       THEN /\ cleanup_task' = "sleeping" /\ wake' = now + cleanup_interval
            /\ UNCHANGED sweep_tasks
       ELSE /\ cleanup_task' = "done" /\ wake' = 0
            /\ sweep_tasks' = sweep_tasks - 1
    /\ reg_last' = Background("task_begin")
    /\ UNCHANGED <<now, regconfig, registry_services, running, stop_waiting,
                   cache, stored, answered>>

\* A mutation of IsStale: an entry as old as the timeout is stale.
IsStale_at_timeout(t, hb) == t - hb >= service_timeout

\* A mutation of IsStale: the difference is taken the other way round.
IsStale_reversed(t, hb) == hb - t > service_timeout

\* current_time - service.last_heartbeat > self.service_timeout
IsStale(t, hb) == t - hb > service_timeout

\* stale_services
StaleServices ==
    {n \in DOMAIN registry_services :
        IsStale(now, registry_services[n].last_heartbeat)}

\* _cleanup_loop, from the end of one asyncio.sleep to the next: one sweep
SweepStep ==
    /\ cleanup_task = "sleeping"
    /\ now >= wake
    /\ registry_services' =
           [n \in (DOMAIN registry_services) \ StaleServices |->
               registry_services[n]]
    /\ IF running
       THEN /\ cleanup_task' = "sleeping" /\ wake' = now + cleanup_interval
            /\ UNCHANGED sweep_tasks
       ELSE /\ cleanup_task' = "done" /\ wake' = 0
            /\ sweep_tasks' = sweep_tasks - 1
    /\ reg_last' = RegCalled("sweep", None, StaleServices, FALSE)
    /\ UNCHANGED <<now, regconfig, running, stop_waiting, cache, stored,
                   answered>>

\* ServiceRegistry.stop(), up to its await: with no task, or a task that has
\* ended, it returns at once.
Stop ==
    /\ ~stop_waiting
    /\ running' = FALSE
    /\ IF cleanup_task \in {"none", "done"}
       THEN /\ reg_last' = RegCalled("stop", None, None, FALSE)
            /\ UNCHANGED <<cleanup_task, sweep_tasks, stop_waiting>>
       ELSE /\ cleanup_task' = "cancelling"
            /\ stop_waiting' = TRUE
            /\ UNCHANGED sweep_tasks
            /\ reg_last' = Background("stop_awaits")
    /\ UNCHANGED <<now, regconfig, registry_services, wake, cache, stored,
                   answered>>

\* _cleanup_loop receives the cancellation and ends.
TaskExit ==
    /\ cleanup_task = "cancelling"
    /\ cleanup_task' = "done"
    /\ sweep_tasks' = sweep_tasks - 1
    /\ wake' = 0
    /\ reg_last' = Background("task_exit")
    /\ UNCHANGED <<now, regconfig, registry_services, running, stop_waiting,
                   cache, stored, answered>>

\* A mutation of TaskEnded: the await returns while the task still runs.
TaskEnded_at_once(task) == TRUE

\* await self._cleanup_task, await self._monitor_task: the awaited task has
\* ended (the CancelledError it may raise is swallowed).
TaskEnded(task) == task = "done"

\* ServiceRegistry.stop(), from its await to its return
StopReturn ==
    /\ stop_waiting
    /\ TaskEnded(cleanup_task)
    /\ stop_waiting' = FALSE
    /\ reg_last' = RegCalled("stop", None, None, FALSE)
    /\ UNCHANGED <<now, regconfig, registry_services, running, cleanup_task,
                   sweep_tasks, wake, cache, stored, answered>>

\* The id of a newly constructed ServiceInfo for name n: one that neither the
\* registry nor the cache holds (only the identity of an object matters).
NewId(n) ==
    CHOOSE id \in 1..3 :
        /\ n \in DOMAIN registry_services => registry_services[n].id # id
        /\ n \in DOMAIN cache => cache[n].service_info.id # id
        /\ \A j \in 1..(id - 1) :
               \/ n \in DOMAIN registry_services /\ registry_services[n].id = j
               \/ n \in DOMAIN cache /\ cache[n].service_info.id = j

\* The last_heartbeat values a caller's ServiceInfo arrives with: the time of
\* its construction (__post_init__) or a value the caller supplied.
CallerHeartbeats == {0, MaxTime}

\* A mutation of Stamped: the caller's last_heartbeat is kept.
Stamped_kept(service_info, t) == service_info

\* service_info.last_heartbeat = time.time()
Stamped(service_info, t) == [service_info EXCEPT !.last_heartbeat = t]

\* list(self.services.values()): the records list_services returns
ListServices == {registry_services[n] : n \in DOMAIN registry_services}

\* register_service(service_info), with a newly constructed ServiceInfo
RegisterService(n) ==
    /\ \E hb \in CallerHeartbeats :
           registry_services' =
               Put(registry_services, n,
                   Stamped(ServiceInfo(n, NewId(n), hb), now))
    /\ reg_last' = RegCalled("register_service", n, TRUE, FALSE)
    /\ UNCHANGED <<now, regconfig, running, cleanup_task, sweep_tasks, wake,
                   stop_waiting, cache, stored, answered>>

\* unregister_service(service_name)
UnregisterService(n) ==
    /\ registry_services' = Pop(registry_services, n)
    /\ reg_last' = RegCalled("unregister_service", n,
                             n \in DOMAIN registry_services, FALSE)
    /\ UNCHANGED <<now, regconfig, running, cleanup_task, sweep_tasks, wake,
                   stop_waiting, cache, stored, answered>>

\* self.services.get(service_name)
GetService(n) == Get(registry_services, n, NoInfo)

\* A mutation of HeartbeatAfter: a name that is not registered gets an entry.
HeartbeatAfter_upsert(n) ==
    Put(registry_services, n,
        [Get(registry_services, n, ServiceInfo(n, 1, now))
            EXCEPT !.last_heartbeat = now])

\* if service_name in self.services:
\*     self.services[service_name].last_heartbeat = time.time()
HeartbeatAfter(n) ==
    IF n \in DOMAIN registry_services
    THEN Put(registry_services, n,
             [registry_services[n] EXCEPT !.last_heartbeat = now])
    ELSE registry_services

\* heartbeat(service_name)
Heartbeat(n) ==
    /\ registry_services' = HeartbeatAfter(n)
    /\ reg_last' = RegCalled("heartbeat", n, n \in DOMAIN registry_services, FALSE)
    /\ UNCHANGED <<now, regconfig, running, cleanup_task, sweep_tasks, wake,
                   stop_waiting, cache, stored, answered>>

\* A mutation of CacheFresh: an entry of age cache_ttl still counts as fresh.
CacheFresh_at_ttl(t, timestamp) == t - timestamp <= cache_ttl

\* A mutation of CacheFresh: the comparison points the other way.
CacheFresh_reversed(t, timestamp) == t - timestamp > cache_ttl

\* current_time - timestamp < self.cache_ttl
CacheFresh(t, timestamp) == t - timestamp < cache_ttl

\* A mutation of Found: None counts as a result too.
Found_always(service_info) == TRUE

\* if service_info:
Found(service_info) == service_info # NoInfo

\* discover_service(service_name)
DiscoverService(n) ==
    /\ IF n \in DOMAIN cache /\ CacheFresh(now, cache[n].timestamp)
       THEN /\ reg_last' = RegCalled("discover_service", n,
                                     cache[n].service_info, FALSE)
            /\ UNCHANGED cache
       ELSE LET service_info == GetService(n)
                entry == [service_info |-> Ref(service_info),
                          timestamp |-> now] IN
            /\ cache' = IF Found(service_info)
                        THEN Put(cache, n, entry) ELSE cache
            /\ reg_last' = RegCalled("discover_service", n,
                                     Ref(service_info), TRUE)
    /\ UNCHANGED <<now, regconfig, regfields>>

\* clear_cache()
ClearCache ==
    /\ cache' = EmptyDict
    /\ reg_last' = RegCalled("clear_cache", None, None, FALSE)
    /\ UNCHANGED <<now, regconfig, regfields>>

\* ---- ServiceHealth, HealthMonitor ----

HEALTHY == "healthy"
UNHEALTHY == "unhealthy"
UNKNOWN == "unknown"
Statuses == {HEALTHY, UNHEALTHY, UNKNOWN}

\* (auto_restart_enabled, max_restart_attempts) of the configurations explored
OrchConfigs == {<<TRUE, 1>>, <<TRUE, 2>>, <<FALSE, 1>>}

\* A ServiceHealth object.
ServiceHealth(n, status, failures) ==
    [service_name |-> n, status |-> status, consecutive_failures |-> failures,
     error_message |-> None]

\* How the HTTP request of a probe ends: with a response of some status, or
\* with an exception whose str() is text.
Response(status) == [kind |-> "response", status |-> status, text |-> None]
Raised(text) == [kind |-> "raised", status |-> 0, text |-> text]

\* No request: the step is not the end of a probe.
NoOutcome == [kind |-> "none", status |-> 0, text |-> None]

\* The responses a probe gets where only success and failure matter.
Responses == {Response(200), Response(500)}
\* The ends of a probe's request: a 200, another status, a transport exception,
\* and a timeout, which is an exception whose str() is empty.
Outcomes == Responses \cup {Raised("refused"), Raised("")}

\* response.status == 200
IsOk(outcome) == outcome.kind = "response" /\ outcome.status = 200

\* What the last step was: a call with its argument and result, the number of
\* _notify_health_change runs and of restart_service calls it made, and, for
\* the end of a probe, how its request ended.
OrchCalled(op, n, ret, notified, restarted) ==
    [op |-> op, name |-> n, ret |-> ret, notified |-> notified,
     restarted |-> restarted, outcome |-> NoOutcome, invoked |-> <<>>]

\* The callbacks registered with the monitor: the orchestrator's
\* _handle_health_change, and a callback that raises an Exception.
HANDLER == "_handle_health_change"
RAISES == "raises"
Callbacks == {HANDLER, RAISES}

OrchInit ==
    /\ \E c \in OrchConfigs :
           /\ auto_restart_enabled = c[1]
           /\ max_restart_attempts = c[2]
    /\ hm_services = <<>>
    /\ health_status = EmptyDict
    /\ hm_running = FALSE
    /\ monitor_task = "none"
    /\ monitor_tasks = 0
    /\ health_change_callbacks = <<>>
    /\ healths = EmptyDict
    /\ probes = <<>>
    /\ hm_stop_waiting = FALSE
    /\ restart_attempts = EmptyDict
    /\ deployment_tasks = EmptyDict
    /\ orch_last = OrchCalled("init", None, None, 0, 0)
    /\ restarts = [n \in Names |-> [calls |-> -1, undeployed |-> FALSE]]

\* A monitor and an orchestrator constructed and not used.
OrchIdle ==
    /\ OrchInit
    /\ orchconfig = <<TRUE, 1>>

\* The identities of the ServiceHealth objects in use.
HealthIds == 1..(2 * MaxMonitored + 2)

\* The names in a fixed order.
NameOrder ==
    CHOOSE s \in [1..Cardinality(Names) -> Names] :
        \A i, j \in 1..Cardinality(Names) : s[i] = s[j] => i = j

\* The references to ServiceHealth objects that the map hs and the tasks pr
\* hold, in a fixed order (0: a task that has not taken its object yet).
References(hs, pr) ==
    LET named == SelectSeq(NameOrder, LAMBDA n : n \in DOMAIN hs)
    IN [i \in 1..Len(named) |-> hs[named[i]]]
           \o [k \in 1..Len(pr) |-> pr[k].health]

\* The place of object id among the objects that refs refers to.
Place(id, refs) ==
    LET first == CHOOSE j \in 1..Len(refs) :
                     refs[j] = id /\ \A i \in 1..(j - 1) : refs[i] # id
    IN Cardinality({refs[i] : i \in 1..first} \ {0})

\* The objects h, the map hs and the tasks pr with the objects that nothing
\* refers to dropped and the others identified by their place (only the
\* identity of an object matters, not its number).
Referenced(h, hs, pr) ==
    LET refs == References(hs, pr)
        ids == {refs[i] : i \in 1..Len(refs)} \ {0}
    IN [healths |-> [r \in 1..Cardinality(ids) |->
                        h[CHOOSE id \in ids : Place(id, refs) = r]],
        health_status |-> [n \in DOMAIN hs |-> Place(hs[n], refs)],
        probes |-> [k \in 1..Len(pr) |->
                       [pr[k] EXCEPT !.health =
                            IF @ = 0 THEN 0 ELSE Place(@, refs)]]]

\* The monitor's objects, map and tasks become those of st.
HealthsBecome(st) ==
    /\ healths' = st.healths
    /\ health_status' = st.health_status
    /\ probes' = st.probes

\* The identity of a newly constructed ServiceHealth, given the objects h.
NewHealthIn(h) ==
    CHOOSE i \in HealthIds :
        i \notin DOMAIN h /\ \A j \in 1..(i - 1) : j \in DOMAIN h
NewHealth == NewHealthIn(healths)

\* HealthMonitor.add_service(service): the monitor's part of the step
MonitorAdd(n) ==
    /\ hm_services' = Append(hm_services, n)
    /\ HealthsBecome(Referenced(
           Put(healths, NewHealth, ServiceHealth(n, UNKNOWN, 0)),
           Put(health_status, n, NewHealth), probes))

\* A mutation of MonitoredWithout: only the first entry of the name goes.
MonitoredWithout_first(n) ==
    LET first == CHOOSE i \in 1..(Len(hm_services) + 1) :
                     /\ i <= Len(hm_services) => hm_services[i] = n
                     /\ \A j \in 1..(i - 1) : hm_services[j] # n
    IN [i \in 1..(Len(hm_services) - (IF first <= Len(hm_services) THEN 1 ELSE 0))
           |-> IF i < first THEN hm_services[i] ELSE hm_services[i + 1]]

\* [s for s in self.services if s.name != service_name]
MonitoredWithout(n) == SelectSeq(hm_services, LAMBDA s : s # n)

\* HealthMonitor.remove_service(service_name): the monitor's part of the step
MonitorRemove(n) ==
    /\ hm_services' = MonitoredWithout(n)
    /\ HealthsBecome(Referenced(healths, Pop(health_status, n), probes))

\* HealthMonitor.add_service(service)
HMAddService(n) ==
    /\ Len(hm_services) < MaxMonitored
    /\ MonitorAdd(n)
    /\ orch_last' = OrchCalled("add_service", n, None, 0, 0)
    /\ UNCHANGED <<orchconfig, hm_running, monitor_task, monitor_tasks,
                   health_change_callbacks, hm_stop_waiting, orchfields>>

\* HealthMonitor.remove_service(service_name)
HMRemoveService(n) ==
    /\ MonitorRemove(n)
    /\ orch_last' = OrchCalled("remove_service", n, None, 0, 0)
    /\ UNCHANGED <<orchconfig, hm_running, monitor_task, monitor_tasks,
                   health_change_callbacks, hm_stop_waiting, orchfields>>

\* HealthMonitor.start(): the monitor's part of the step
MonitorStart ==
    /\ hm_running' = TRUE
    /\ IF IsNone(monitor_task)
       THEN monitor_task' = "pending" /\ monitor_tasks' = monitor_tasks + 1
       ELSE UNCHANGED <<monitor_task, monitor_tasks>>

\* HealthMonitor.start()
HMStart ==
    /\ MonitorStart
    /\ orch_last' = OrchCalled("monitor_start", None, None, 0, 0)
    /\ UNCHANGED <<orchconfig, hm_services, health_status,
                   health_change_callbacks, healths, probes, hm_stop_waiting,
                   orchfields>>

\* HealthMonitor.stop(), up to its await: with no task, or a task that has
\* ended, it returns at once.
HMStop ==
    /\ ~hm_stop_waiting
    /\ hm_running' = FALSE
    /\ IF monitor_task \in {"none", "done"}
       THEN /\ orch_last' = OrchCalled("monitor_stop", None, None, 0, 0)
            /\ UNCHANGED <<monitor_task, monitor_tasks, hm_stop_waiting>>
       ELSE /\ monitor_task' = "cancelling"
            /\ hm_stop_waiting' = TRUE
            /\ UNCHANGED monitor_tasks
            /\ orch_last' = OrchCalled("stop_awaits", None, None, 0, 0)
    /\ UNCHANGED <<orchconfig, hm_services, health_status,
                   health_change_callbacks, healths, probes, orchfields>>

\* _monitor_loop and the probe tasks it gathers receive the cancellation and
\* end.
HMTaskExit ==
    /\ monitor_task = "cancelling"
    /\ monitor_task' = "done"
    /\ monitor_tasks' = monitor_tasks - 1
    /\ HealthsBecome(Referenced(healths, health_status, <<>>))
    /\ orch_last' = OrchCalled("task_exit", None, None, 0, 0)
    /\ UNCHANGED <<orchconfig, hm_services, hm_running,
                   health_change_callbacks, hm_stop_waiting, orchfields>>

\* HealthMonitor.stop(), from its await to its return
HMStopReturn ==
    /\ hm_stop_waiting
    /\ TaskEnded(monitor_task)
    /\ hm_stop_waiting' = FALSE
    /\ orch_last' = OrchCalled("monitor_stop", None, None, 0, 0)
    /\ UNCHANGED <<orchconfig, hm_services, health_status, hm_running,
                   monitor_task, monitor_tasks, health_change_callbacks,
                   healths, probes, orchfields>>

\* _monitor_loop, from its creation or the end of its sleep to its gather: it
\* creates one check_service_health task per entry of the list.
CycleBegin ==
    /\ monitor_task \in {"pending", "sleeping"}
    /\ IF hm_running
       THEN /\ probes' = [i \in 1..Len(hm_services) |->
                             [name |-> hm_services[i], health |-> 0]]
            /\ monitor_task' = IF Len(hm_services) > 0 THEN "gathering"
                                                        ELSE "sleeping"
            /\ UNCHANGED monitor_tasks
       ELSE /\ monitor_task' = "done" /\ probes' = <<>>
            /\ monitor_tasks' = monitor_tasks - 1
    /\ orch_last' = OrchCalled("cycle_begin", None, None, 0, 0)
    /\ UNCHANGED <<orchconfig, hm_services, health_status, hm_running,
                   health_change_callbacks, healths, hm_stop_waiting,
                   orchfields>>

\* The tasks, the map and the objects after task k of the cycle and those
\* behind it have run check_service_health up to the HTTP request: each takes
\* the ServiceHealth of its service, creating one in UNKNOWN if there is none.
RECURSIVE ProbesBegun(_, _)
ProbesBegun(k, st) ==
    IF k > Len(st.probes) THEN st
    ELSE LET n == st.probes[k].name
             id == IF n \in DOMAIN st.health_status
                   THEN st.health_status[n] ELSE NewHealthIn(st.healths)
         IN ProbesBegun(k + 1,
                [probes |-> [st.probes EXCEPT ![k].health = id],
                 health_status |-> Put(st.health_status, n, id),
                 healths |-> IF n \in DOMAIN st.health_status THEN st.healths
                             ELSE Put(st.healths, id, ServiceHealth(n, UNKNOWN, 0))])

\* The check_service_health tasks of the cycle start, in the order of their
\* creation.
ProbeBegin ==
    /\ monitor_task = "gathering"
    /\ \E k \in 1..Len(probes) : probes[k].health = 0
    /\ LET st == ProbesBegun(1, [probes |-> probes,
                                 health_status |-> health_status,
                                 healths |-> healths])
       IN HealthsBecome(Referenced(st.healths, st.health_status, st.probes))
    /\ orch_last' = OrchCalled("probe_begin", None, None, 0, 0)
    /\ UNCHANGED <<orchconfig, hm_services, hm_running, monitor_task,
                   monitor_tasks, health_change_callbacks, hm_stop_waiting,
                   orchfields>>

\* A mutation of StatusChanged: every probe counts as a change.
StatusChanged_always(old, new) == TRUE

\* old_status != the status the probe sets
StatusChanged(old, new) == old # new

\* A mutation of ErrorText: no text is kept.
ErrorText_none(outcome) == None

\* The error argument of _handle_health_failure: f"HTTP {response.status}",
\* or str(e).
ErrorText(outcome) ==
    IF outcome.kind = "response"
    THEN "HTTP " \o ToString(outcome.status) ELSE outcome.text

\* A mutation of FailuresAfter: the counter restarts at 1 on every failure.
FailuresAfter_one(count) == 1

\* health.consecutive_failures += 1
FailuresAfter(count) == count + 1

\* A mutation of HealthAfterProbe: a failed probe resets the record.
HealthAfterProbe_reset(h, outcome) ==
    IF IsOk(outcome) THEN ServiceHealth(h.service_name, HEALTHY, 0)
    ELSE ServiceHealth(h.service_name, UNKNOWN, h.consecutive_failures + 1)

\* The ServiceHealth after a probe: a 200 response, or anything else.
HealthAfterProbe(h, outcome) ==
    IF IsOk(outcome) THEN ServiceHealth(h.service_name, HEALTHY, 0)
    ELSE [ServiceHealth(h.service_name, UNHEALTHY,
                        FailuresAfter(h.consecutive_failures))
             EXCEPT !.error_message = ErrorText(outcome)]

\* ---- ServiceOrchestrator ----

\* A mutation of ShouldRestart: the third failure is not enough.
ShouldRestart_above(h) ==
    /\ h.status = UNHEALTHY
    /\ auto_restart_enabled
    /\ h.consecutive_failures > 3

\* The condition of _handle_health_change.
ShouldRestart(h) ==
    /\ h.status = UNHEALTHY
    /\ auto_restart_enabled
    /\ h.consecutive_failures >= 3

\* A mutation of RestartAllowed: one attempt more is let through.
RestartAllowed_one_more(ra, n) ==
    /\ auto_restart_enabled
    /\ Get(ra, n, 0) <= max_restart_attempts

\* restart_service(service_name) returns True.
RestartAllowed(ra, n) ==
    /\ auto_restart_enabled
    /\ Get(ra, n, 0) < max_restart_attempts

\* restart_attempts after restart_service(service_name)
AttemptsAfterRestart(ra, n) ==
    IF RestartAllowed(ra, n) THEN Put(ra, n, Get(ra, n, 0) + 1) ELSE ra

\* restart_attempts after _handle_health_change(health)
AttemptsAfterHandler(ra, h) ==
    IF ShouldRestart(h) THEN AttemptsAfterRestart(ra, h.service_name) ELSE ra

\* restart_attempts after _notify_health_change(health) with k callbacks
RECURSIVE AttemptsAfterNotify(_, _, _)
AttemptsAfterNotify(ra, h, k) ==
    IF k = 0 THEN ra
    ELSE AttemptsAfterNotify(AttemptsAfterHandler(ra, h), h, k - 1)

\* A mutation of ContinuesAfter: an exception of a callback ends the loop.
ContinuesAfter_unless_raised(callback) == callback # RAISES

\* try: ... except Exception: pass, around the call of one callback: the loop
\* of _notify_health_change goes on to the next callback.
ContinuesAfter(callback) == TRUE

\* The positions in health_change_callbacks of the callbacks that
\* _notify_health_change calls, in the order of the calls, from position i on.
RECURSIVE Invoked(_, _)
Invoked(cbs, i) ==
    IF i > Len(cbs) THEN <<>>
    ELSE IF ContinuesAfter(cbs[i]) THEN <<i>> \o Invoked(cbs, i + 1)
    ELSE <<i>>

\* The number of calls of _handle_health_change among the calls at positions
\* called.
HandlerRuns(cbs, called) ==
    Len(SelectSeq(called, LAMBDA i : cbs[i] = HANDLER))

\* A mutation of MayEnd: the probes end in the order of the list.
MayEnd_in_order(k) == k = 1

\* The tasks that asyncio.gather awaits run concurrently: any of them may be
\* the next to end.
MayEnd(k) == k \in 1..Len(probes)

\* check_service_health, from the HTTP response (or its failure) to its
\* return: it sets the status, and notifies if the status has changed.
ProbeEnd(k, outcome) ==
    /\ monitor_task = "gathering"
    /\ k \in 1..Len(probes)
    /\ MayEnd(k)
    /\ probes[k].health # 0
    /\ LET id == probes[k].health
           old == healths[id]
           new == HealthAfterProbe(old, outcome)
           changed == StatusChanged(old.status, new.status)
           called == IF changed THEN Invoked(health_change_callbacks, 1)
                     ELSE <<>>
           runs == HandlerRuns(health_change_callbacks, called)
       IN /\ ~IsOk(outcome) => old.consecutive_failures < MaxProbeFail
          /\ HealthsBecome(Referenced(
                 [healths EXCEPT ![id] = new], health_status,
                 [i \in 1..(Len(probes) - 1) |->
                     IF i < k THEN probes[i] ELSE probes[i + 1]]))
          /\ restart_attempts' =
                 AttemptsAfterNotify(restart_attempts, new, runs)
          /\ monitor_task' = IF Len(probes) = 1 THEN "sleeping" ELSE "gathering"
          /\ UNCHANGED monitor_tasks
          /\ orch_last' =
                 [OrchCalled("probe_end", old.service_name,
                             <<old.status, new.status>>,
                             IF changed THEN 1 ELSE 0,
                             IF ShouldRestart(new) THEN runs ELSE 0)
                     EXCEPT !.outcome = outcome, !.invoked = called]
    /\ UNCHANGED <<orchconfig, hm_services, hm_running,
                   health_change_callbacks, hm_stop_waiting, deployment_tasks>>

\* HealthMonitor.add_health_change_callback(callback), as long as fewer than
\* limit callbacks are registered
AddCallback(callback, limit) ==
    /\ Len(health_change_callbacks) < limit
    /\ health_change_callbacks' = Append(health_change_callbacks, callback)
    /\ orch_last' = OrchCalled("add_health_change_callback", None, None, 0, 0)
    /\ UNCHANGED <<orchconfig, hm_services, health_status, hm_running,
                   monitor_task, monitor_tasks, healths, probes,
                   hm_stop_waiting, orchfields>>

\* HealthMonitor.add_health_change_callback(callback), callback being the
\* orchestrator's _handle_health_change
AddHealthChangeCallback == AddCallback(HANDLER, MaxCallbacks)

\* ServiceOrchestrator.start()
OrchStart ==
    /\ Len(health_change_callbacks) < MaxCallbacks
    /\ MonitorStart
    /\ health_change_callbacks' = Append(health_change_callbacks, HANDLER)
    /\ orch_last' = OrchCalled("start", None, None, 0, 0)
    /\ UNCHANGED <<orchconfig, hm_services, health_status, healths, probes,
                   hm_stop_waiting, orchfields>>

\* A mutation of AttemptsAfterDeploy: a counter that exists is kept.
AttemptsAfterDeploy_kept(ra, n) == IF n \in DOMAIN ra THEN ra ELSE Put(ra, n, 0)

\* restart_attempts after deploy_service(service_info)
AttemptsAfterDeploy(ra, n) == Put(ra, n, 0)

\* deploy_service(service_info), with a newly constructed ServiceInfo
DeployService(n) ==
    /\ Len(hm_services) < MaxMonitored
    /\ RegisterService(n)
    /\ MonitorAdd(n)
    /\ restart_attempts' = AttemptsAfterDeploy(restart_attempts, n)
    /\ orch_last' = OrchCalled("deploy_service", n, TRUE, 0, 0)
    /\ UNCHANGED <<orchconfig, hm_running, monitor_task, monitor_tasks,
                   health_change_callbacks, hm_stop_waiting, deployment_tasks>>

\* undeploy_service(service_name)
UndeployService(n) ==
    /\ MonitorRemove(n)
    /\ UnregisterService(n)
    /\ deployment_tasks' = Pop(deployment_tasks, n)
    /\ restart_attempts' = Pop(restart_attempts, n)
    /\ orch_last' = OrchCalled("undeploy_service", n, TRUE, 0, 0)
    /\ UNCHANGED <<orchconfig, hm_running, monitor_task, monitor_tasks,
                   health_change_callbacks, hm_stop_waiting>>

\* restart_service(service_name)
RestartService(n) ==
    /\ restart_attempts' = AttemptsAfterRestart(restart_attempts, n)
    /\ orch_last' = OrchCalled("restart_service", n,
                               RestartAllowed(restart_attempts, n), 0, 1)
    /\ UNCHANGED <<orchconfig, hmfields, deployment_tasks>>

\* _handle_health_change(health), for any ServiceHealth it may be given
HandleHealthChange(n, status, failures) ==
    LET health == ServiceHealth(n, status, failures) IN
    /\ restart_attempts' = AttemptsAfterHandler(restart_attempts, health)
    /\ orch_last' = OrchCalled("_handle_health_change", n, health, 0,
                               IF ShouldRestart(health) THEN 1 ELSE 0)
    /\ UNCHANGED <<orchconfig, hmfields, deployment_tasks>>

\* The round-robin rotation since the list and the available set last changed.
HistoryAfter ==
    IF services' = services /\ available_services' = available_services
    THEN IF lb_last'.op = "get_next_service" /\ lb_last'.pos # 0
         THEN Append(history, lb_last'.pos) ELSE history
    ELSE <<>>

\* The registry and the discovery client, constructed and not used.
RegIdle ==
    /\ RegInit
    /\ regconfig = <<2, 1, 1>>

Init == LBInit /\ history = <<>> /\ RegIdle /\ OrchIdle

\* One call of a LoadBalancer method.
Next ==
    \/ \E n \in Names : AddService(n) /\ UNCHANGED <<history, regvars, orchvars>>
    \/ \E n \in Names : RemoveService(n) /\ UNCHANGED <<history, regvars, orchvars>>
    \/ GetNextService /\ UNCHANGED <<history, regvars, orchvars>>
    \/ \E n \in Names : IncrementConnection(n) /\ UNCHANGED <<history, regvars, orchvars>>
    \/ \E n \in Names : DecrementConnection(n) /\ UNCHANGED <<history, regvars, orchvars>>
    \/ \E n \in Names : RecordFailure(n) /\ UNCHANGED <<history, regvars, orchvars>>
    \/ \E n \in Names : RecordSuccess(n) /\ UNCHANGED <<history, regvars, orchvars>>

\* The load balancer under any configuration.
Spec == Init /\ [][Next]_vars

InitRR == Init /\ strategy = ROUND_ROBIN

\* The calls that decide the round-robin rotation (the connection counters
\* are read by least_connections only), with the rotation recorded.
NextRR ==
    \/ \E n \in Names : AddService(n) /\ history' = HistoryAfter /\ UNCHANGED <<regvars, orchvars>>
    \/ \E n \in Names : RemoveService(n) /\ history' = HistoryAfter /\ UNCHANGED <<regvars, orchvars>>
    \/ GetNextService /\ history' = HistoryAfter /\ UNCHANGED <<regvars, orchvars>>
    \/ \E n \in Names : RecordFailure(n) /\ history' = HistoryAfter /\ UNCHANGED <<regvars, orchvars>>
    \/ \E n \in Names : RecordSuccess(n) /\ history' = HistoryAfter /\ UNCHANGED <<regvars, orchvars>>

\* The load balancer under round_robin.
SpecRR == InitRR /\ [][NextRR]_vars

\* A load balancer constructed and not used.
LBIdle ==
    /\ LBInit
    /\ strategy = ROUND_ROBIN
    /\ circuit_breaker_enabled
    /\ circuit_breaker_threshold = 1
    /\ history = <<>>

InitReg == RegInit /\ LBIdle /\ OrchIdle

\* One step of the registry, of its sweep task or of the clock.
NextReg ==
    \/ Tick /\ UNCHANGED <<lbvars, orchvars, history>>
    \/ Start /\ UNCHANGED <<lbvars, orchvars, history>>
    \/ TaskBegin /\ UNCHANGED <<lbvars, orchvars, history>>
    \/ SweepStep /\ UNCHANGED <<lbvars, orchvars, history>>
    \/ Stop /\ UNCHANGED <<lbvars, orchvars, history>>
    \/ TaskExit /\ UNCHANGED <<lbvars, orchvars, history>>
    \/ StopReturn /\ UNCHANGED <<lbvars, orchvars, history>>
    \/ \E n \in Names : RegisterService(n) /\ UNCHANGED <<lbvars, orchvars, history>>
    \/ \E n \in Names : UnregisterService(n) /\ UNCHANGED <<lbvars, orchvars, history>>
    \/ \E n \in Names : Heartbeat(n) /\ UNCHANGED <<lbvars, orchvars, history>>

\* The registry with its sweep task.
SpecReg == InitReg /\ [][NextReg]_vars

\* The event loop runs a task that is ready, and time passes.
SpecRegFair ==
    /\ SpecReg
    /\ WF_vars(Tick /\ UNCHANGED <<lbvars, orchvars, history>>)
    /\ WF_vars(TaskBegin /\ UNCHANGED <<lbvars, orchvars, history>>)
    /\ WF_vars(SweepStep /\ UNCHANGED <<lbvars, orchvars, history>>)
    /\ WF_vars(TaskExit /\ UNCHANGED <<lbvars, orchvars, history>>)

\* The entries stored, after a discover_service(n) call.
StoredAfter(n) ==
    IF reg_last'.read /\ n \in DOMAIN cache'
    THEN Put(stored, n, cache'[n]) ELSE stored

\* One step of the discovery client, of the registry it reads or of the
\* clock, with the stored entries recorded.  The registry is not started
\* here: its sweep only deletes entries, as unregister_service does.
NextDisc ==
    \/ Tick /\ UNCHANGED <<lbvars, orchvars, history>>
    \/ \E n \in Names : RegisterService(n) /\ UNCHANGED <<lbvars, orchvars, history>>
    \/ \E n \in Names : UnregisterService(n) /\ UNCHANGED <<lbvars, orchvars, history>>
    \/ \E n \in Names : Heartbeat(n) /\ UNCHANGED <<lbvars, orchvars, history>>
    \/ \E n \in Names :
           /\ DiscoverService(n)
           /\ stored' = StoredAfter(n)
           /\ UNCHANGED <<lbvars, orchvars, history, answered>>
    \/ ClearCache /\ UNCHANGED <<lbvars, orchvars, history, stored, answered>>

\* The discovery client in front of a registry.
SpecDisc == InitReg /\ [][NextDisc]_vars

\* What the last discover_service answers for a name were: None, a service
\* right after None, or anything else.
AnswerAfter(before, found) ==
    IF ~found THEN "none"
    ELSE IF before = "none" THEN "found_after_none" ELSE "other"

\* The answers after a discover_service(n) call.
AnsweredAfter(n) ==
    Put(answered, n, AnswerAfter(answered[n], reg_last'.ret # Ref(NoInfo)))

\* One step of the discovery client or of the registry's registrations, with
\* the answers recorded.
NextAnswers ==
    \/ Tick /\ UNCHANGED <<lbvars, orchvars, history>>
    \/ \E n \in Names : RegisterService(n) /\ UNCHANGED <<lbvars, orchvars, history>>
    \/ \E n \in Names : UnregisterService(n) /\ UNCHANGED <<lbvars, orchvars, history>>
    \/ \E n \in Names :
           /\ DiscoverService(n)
           /\ answered' = AnsweredAfter(n)
           /\ UNCHANGED <<lbvars, orchvars, history, stored>>
    \/ ClearCache /\ UNCHANGED <<lbvars, orchvars, history, stored, answered>>

\* The discovery client with the history of its answers.
SpecAnswers == InitReg /\ [][NextAnswers]_vars

InitMon == OrchIdle /\ LBIdle /\ RegIdle

\* One step of the health monitor or of its tasks.
NextMon ==
    \/ HMStart /\ UNCHANGED <<lbvars, history, restarts, regvars>>
    \/ HMStop /\ UNCHANGED <<lbvars, history, restarts, regvars>>
    \/ HMTaskExit /\ UNCHANGED <<lbvars, history, restarts, regvars>>
    \/ HMStopReturn /\ UNCHANGED <<lbvars, history, restarts, regvars>>
    \/ CycleBegin /\ UNCHANGED <<lbvars, history, restarts, regvars>>
    \/ ProbeBegin /\ UNCHANGED <<lbvars, history, restarts, regvars>>
    \/ \E k \in 1..MaxMonitored, outcome \in Responses :
           /\ ProbeEnd(k, outcome)
           /\ UNCHANGED <<lbvars, history, restarts, regvars>>
    \/ \E n \in Names : HMAddService(n) /\ UNCHANGED <<lbvars, history, restarts, regvars>>
    \/ \E n \in Names :
           HMRemoveService(n) /\ UNCHANGED <<lbvars, history, restarts, regvars>>
    \/ AddHealthChangeCallback /\ UNCHANGED <<lbvars, history, restarts, regvars>>

\* The health monitor with its probe loop.
SpecMon == InitMon /\ [][NextMon]_vars

\* One step of the health monitor or of its tasks, the request of a probe
\* ending in any of the ways it can.
NextProbe ==
    \/ HMStart /\ UNCHANGED <<lbvars, history, restarts, regvars>>
    \/ CycleBegin /\ UNCHANGED <<lbvars, history, restarts, regvars>>
    \/ ProbeBegin /\ UNCHANGED <<lbvars, history, restarts, regvars>>
    \/ \E k \in 1..MaxMonitored, outcome \in Outcomes :
           /\ ProbeEnd(k, outcome)
           /\ UNCHANGED <<lbvars, history, restarts, regvars>>
    \/ \E n \in Names :
           /\ HMAddService(n)
           /\ UNCHANGED <<lbvars, history, restarts, regvars>>
    \/ \E n \in Names :
           /\ HMRemoveService(n)
           /\ UNCHANGED <<lbvars, history, restarts, regvars>>

\* The health monitor, started and not stopped, with its probe loop and every
\* kind of probe failure.
SpecProbe == InitMon /\ [][NextProbe]_vars

\* One step of the health monitor or of its tasks, with callbacks of both
\* kinds registered.
NextNotify ==
    \/ HMStart /\ UNCHANGED <<lbvars, history, restarts, regvars>>
    \/ CycleBegin /\ UNCHANGED <<lbvars, history, restarts, regvars>>
    \/ ProbeBegin /\ UNCHANGED <<lbvars, history, restarts, regvars>>
    \/ \E k \in 1..MaxMonitored, outcome \in Responses :
           /\ ProbeEnd(k, outcome)
           /\ UNCHANGED <<lbvars, history, restarts, regvars>>
    \/ \E n \in Names :
           /\ HMAddService(n)
           /\ UNCHANGED <<lbvars, history, restarts, regvars>>
    \/ \E callback \in Callbacks :
           /\ AddCallback(callback, MaxNotified)
           /\ UNCHANGED <<lbvars, history, restarts, regvars>>

\* The health monitor, started and not stopped, with callbacks that raise.
SpecNotify == InitMon /\ [][NextNotify]_vars

\* A load balancer with the circuit breaker at threshold 1 and a strategy
\* without a cursor, next to a monitor, both constructed and not used.
InitDecoupled ==
    /\ LBInit
    /\ strategy = LEAST_CONNECTIONS
    /\ circuit_breaker_enabled
    /\ circuit_breaker_threshold = 1
    /\ history = <<>>
    /\ RegIdle
    /\ OrchIdle

\* The name of the service that both the load balancer and the monitor are
\* given.
Shared == {"a"}

\* One call of a LoadBalancer method, or one step of the health monitor or of
\* its tasks, in any order.
NextDecoupled ==
    \/ \E n \in Shared :
           AddService(n) /\ UNCHANGED <<history, regvars, orchvars>>
    \/ GetNextService /\ UNCHANGED <<history, regvars, orchvars>>
    \/ \E n \in Shared :
           RecordFailure(n) /\ UNCHANGED <<history, regvars, orchvars>>
    \/ \E n \in Shared :
           RecordSuccess(n) /\ UNCHANGED <<history, regvars, orchvars>>
    \/ HMStart /\ UNCHANGED <<lbvars, history, restarts, regvars>>
    \/ CycleBegin /\ UNCHANGED <<lbvars, history, restarts, regvars>>
    \/ ProbeBegin /\ UNCHANGED <<lbvars, history, restarts, regvars>>
    \/ \E k \in 1..MaxMonitored, outcome \in Responses :
           /\ ProbeEnd(k, outcome)
           /\ UNCHANGED <<lbvars, history, restarts, regvars>>
    \/ \E n \in Shared :
           /\ HMAddService(n)
           /\ UNCHANGED <<lbvars, history, restarts, regvars>>

\* The load balancer and the health monitor side by side.
SpecDecoupled == InitDecoupled /\ [][NextDecoupled]_vars

\* No method of the registry has been called, no method of the monitor has.
RegUnused == reg_last.op = "init"
MonUnused == orch_last.op = "init"

\* The registry and the monitor share no field and no task: each is exercised
\* with the other left as constructed.
NextTasks ==
    \/ MonUnused /\ Tick /\ UNCHANGED <<lbvars, orchvars, history>>
    \/ MonUnused /\ Start /\ UNCHANGED <<lbvars, orchvars, history>>
    \/ MonUnused /\ TaskBegin /\ UNCHANGED <<lbvars, orchvars, history>>
    \/ MonUnused /\ SweepStep /\ UNCHANGED <<lbvars, orchvars, history>>
    \/ MonUnused /\ Stop /\ UNCHANGED <<lbvars, orchvars, history>>
    \/ MonUnused /\ TaskExit /\ UNCHANGED <<lbvars, orchvars, history>>
    \/ MonUnused /\ StopReturn /\ UNCHANGED <<lbvars, orchvars, history>>
    \/ \E n \in Names :
           /\ MonUnused /\ RegisterService(n)
           /\ UNCHANGED <<lbvars, orchvars, history>>
    \/ \E n \in Names :
           /\ MonUnused /\ Heartbeat(n)
           /\ UNCHANGED <<lbvars, orchvars, history>>
    \/ RegUnused /\ HMStart /\ UNCHANGED <<lbvars, history, restarts, regvars>>
    \/ RegUnused /\ HMStop /\ UNCHANGED <<lbvars, history, restarts, regvars>>
    \/ RegUnused /\ HMTaskExit
                 /\ UNCHANGED <<lbvars, history, restarts, regvars>>
    \/ RegUnused /\ HMStopReturn
                 /\ UNCHANGED <<lbvars, history, restarts, regvars>>
    \/ RegUnused /\ CycleBegin
                 /\ UNCHANGED <<lbvars, history, restarts, regvars>>
    \/ RegUnused /\ ProbeBegin
                 /\ UNCHANGED <<lbvars, history, restarts, regvars>>
    \/ \E k \in 1..MaxMonitored, outcome \in Responses :
           /\ RegUnused /\ ProbeEnd(k, outcome)
           /\ UNCHANGED <<lbvars, history, restarts, regvars>>
    \/ \E n \in Names :
           /\ RegUnused /\ HMAddService(n)
           /\ UNCHANGED <<lbvars, history, restarts, regvars>>
    \/ RegUnused /\ AddHealthChangeCallback
                 /\ UNCHANGED <<lbvars, history, restarts, regvars>>

\* The registry with its sweep task, and the monitor with its probe loop.
SpecTasks == InitReg /\ [][NextTasks]_vars

\* A registry constructed and not used, at time 0.
InitOrch == OrchInit /\ LBIdle /\ RegIdle

\* One step of the orchestrator or of its health monitor's tasks.
NextOrch ==
    \/ OrchStart /\ UNCHANGED <<lbvars, history, restarts, regvars>>
    \/ CycleBegin /\ UNCHANGED <<lbvars, history, restarts, regvars>>
    \/ ProbeBegin /\ UNCHANGED <<lbvars, history, restarts, regvars>>
    \/ \E k \in 1..MaxMonitored, outcome \in Responses :
           /\ ProbeEnd(k, outcome)
           /\ UNCHANGED <<lbvars, history, restarts, regvars>>
    \/ \E n \in Names : DeployService(n) /\ UNCHANGED <<lbvars, history, restarts>>
    \/ \E n \in Names : UndeployService(n) /\ UNCHANGED <<lbvars, history, restarts>>
    \/ \E n \in Names : RestartService(n) /\ UNCHANGED <<lbvars, history, restarts, regvars>>

\* The orchestrator with its health monitor and its registry.
SpecOrch == InitMon /\ [][NextOrch]_vars

\* The consecutive_failures of the records given to _handle_health_change:
\* around the 3 it compares with.
HandlerFailures == {2, 3}

\* The restart_service calls after a step, counted up to one more than the
\* configuration allows.
RestartsAfter ==
    LET n == orch_last'.name
        more == IF restarts[n].calls \in 0..max_restart_attempts
                THEN restarts[n].calls + 1 ELSE restarts[n].calls
    IN CASE orch_last'.op = "deploy_service" ->
                [restarts EXCEPT ![n] = [calls |-> 0, undeployed |-> FALSE]]
         [] orch_last'.op = "undeploy_service" ->
                [restarts EXCEPT ![n].undeployed = TRUE]
         [] orch_last'.restarted = 1 ->
                [restarts EXCEPT ![n].calls = more]
         [] OTHER -> restarts

\* One call of the orchestrator's restart policy, or a deployment, with the
\* restart_service calls counted.
NextRestart ==
    \/ \E n \in Names :
           /\ DeployService(n)
           /\ restarts' = RestartsAfter
           /\ UNCHANGED <<lbvars, history>>
    \/ \E n \in Names :
           /\ UndeployService(n)
           /\ restarts' = RestartsAfter
           /\ UNCHANGED <<lbvars, history>>
    \/ \E n \in Names :
           /\ RestartService(n)
           /\ restarts' = RestartsAfter
           /\ UNCHANGED <<lbvars, history, regvars>>
    \/ \E n \in Names, status \in Statuses, failures \in HandlerFailures :
           /\ HandleHealthChange(n, status, failures)
           /\ restarts' = RestartsAfter
           /\ UNCHANGED <<lbvars, history, regvars>>

\* The orchestrator's restart policy.
SpecRestart == InitOrch /\ [][NextRestart]_vars

\* ------------------------------------------------------------------------
\* Properties of the load balancer
\* ------------------------------------------------------------------------

\* The circuit-breaker flag of n is set.
BreakerOpen(n) == Get(circuit_breaker_states, n, FALSE)

\* The positions of the available services.
AvailablePositions ==
    {available_services[i] : i \in 1..Len(available_services)}

\* C1, as stated: with the circuit breaker enabled, once a listed service has
\* had circuit_breaker_threshold consecutive record_failure calls,
\* get_next_service does not return it, under any strategy, as long as no
\* record_success for it has followed.
C1_ExcludedUntilSuccess ==
    (circuit_breaker_enabled /\ lb_last.op = "get_next_service")
        => lb_last.name \notin tripped

\* C1, amended: with the circuit breaker enabled, get_next_service does not
\* return a service that has had circuit_breaker_threshold or more
\* record_failure calls since the last add_service or record_success for its
\* name, under any strategy.
C1_ExcludedUntilSuccessOrAdd ==
    (circuit_breaker_enabled /\ lb_last.op = "get_next_service"
        /\ lb_last.name # None)
        => streak[lb_last.name] < circuit_breaker_threshold

\* A listed service has had exactly threshold failures, and get_next_service
\* has returned another one.
C1_Witness ==
    /\ circuit_breaker_enabled
    /\ lb_last.op = "get_next_service"
    /\ lb_last.name # None
    /\ \E n \in ServiceNames :
           streak[n] = circuit_breaker_threshold /\ lb_last.name # n

\* C2, as stated: once the circuit-breaker flag of a name is true it stays
\* true over every step that is not record_success for that name.
C2_OpenUntilSuccess ==
    [][\A n \in Names :
           (BreakerOpen(n) /\ lb_last' # Called("record_success", n))
               => BreakerOpen(n)']_vars

\* C2, amended: once the circuit-breaker flag of a name is true it stays true
\* over every step that is not record_success, add_service or remove_service
\* for that name.
C2_OpenUntilSuccessAddRemove ==
    [][\A n \in Names :
           (/\ BreakerOpen(n)
            /\ lb_last' # Called("record_success", n)
            /\ lb_last' # Called("add_service", n)
            /\ lb_last' # Called("remove_service", n))
               => BreakerOpen(n)']_vars

\* A failure was recorded for a name whose breaker was open already.
C2_Witness ==
    \E n \in Names :
        /\ lb_last = Called("record_failure", n)
        /\ BreakerOpen(n)
        /\ failure_counts[n] > circuit_breaker_threshold

\* C3: right after record_success(n) the failure count of n is 0 and its flag
\* is false, and every list entry named n is among the available services.
C3_SuccessResets ==
    \A n \in Names :
        lb_last = Called("record_success", n) =>
            /\ n \in DOMAIN failure_counts /\ failure_counts[n] = 0
            /\ n \in DOMAIN circuit_breaker_states
            /\ circuit_breaker_states[n] = FALSE
            /\ \A i \in 1..Len(services) :
                   services[i] = n => i \in AvailablePositions

\* record_success was called for a listed service while another breaker is open.
C3_Witness ==
    \E n \in ServiceNames :
        /\ lb_last = Called("record_success", n)
        /\ \E m \in ServiceNames : BreakerOpen(m)

\* C4: under round_robin, while the list and the available set stay the same,
\* any N consecutive results (N the number of available services) are each
\* available service once, and each result equals the one N calls earlier.
C4_RoundRobinFair ==
    LET N == Len(available_services) IN
    /\ \A i \in 1..Len(history) :
           (i + N - 1 <= Len(history)) =>
               {history[j] : j \in i..(i + N - 1)} = AvailablePositions
    /\ \A i \in 1..Len(history) : (i > N) => history[i] = history[i - N]

\* Two available services were rotated through twice, from a cursor that was
\* not 0.
C4_Witness ==
    /\ Len(available_services) = 2
    /\ Len(history) = 4
    /\ current_index > 4

\* C5: get_next_service returns a list entry whose flag is false, and returns
\* None exactly when the list has no such entry.
C5_OnlyAvailableOrNone ==
    lb_last.op = "get_next_service" =>
        IF lb_last.name = None
        THEN \A i \in 1..Len(services) : BreakerOpen(services[i])
        ELSE /\ lb_last.pos \in 1..Len(services)
             /\ services[lb_last.pos] = lb_last.name
             /\ lb_last.name \in DOMAIN circuit_breaker_states
             /\ circuit_breaker_states[lb_last.name] = FALSE

\* A service was returned while another listed one has its breaker open.
C5_Witness ==
    /\ lb_last.op = "get_next_service"
    /\ lb_last.name # None
    /\ \E i \in 1..Len(services) : BreakerOpen(services[i])

\* C6: get_next_service does not return a name that was removed and not added
\* again.
C6_RemovedNotReturned ==
    lb_last.op = "get_next_service" => lb_last.name \notin removed

\* Mid-rotation, a service was returned after another one was removed.
C6_Witness ==
    /\ strategy = ROUND_ROBIN
    /\ lb_last.op = "get_next_service"
    /\ lb_last.name # None
    /\ removed # {}
    /\ current_index > 2

\* C7: the three per-service maps have the same key set.
C7_SameKeySets ==
    /\ DOMAIN connection_counts = DOMAIN circuit_breaker_states
    /\ DOMAIN circuit_breaker_states = DOMAIN failure_counts

\* ------------------------------------------------------------------------
\* Properties of the registry and of the discovery client
\* ------------------------------------------------------------------------

\* The heartbeat age of registered n exceeds the timeout.
Expired(n) ==
    /\ n \in DOMAIN registry_services
    /\ now - registry_services[n].last_heartbeat > service_timeout

\* The sweep task exists and has not been cancelled.
SweepAlive == cleanup_task \in {"pending", "sleeping"}

\* The sweep task is sleeping and its sleep ends within the clock's bound.
SweepDue == cleanup_task = "sleeping" /\ wake <= MaxTime

\* C8: while the sweep task is running, a registered service whose heartbeat
\* age has passed service_timeout is eventually removed, so that get_service
\* returns None for it, unless a heartbeat or a registration refreshes it or
\* the task is stopped first.
C8_StaleEvicted ==
    \A n \in Names :
        (Expired(n) /\ SweepDue)
            ~> (GetService(n) = NoInfo \/ ~Expired(n) \/ ~SweepAlive)

\* A sweep has just deleted a service, and get_service returns None for it.
C8_Witness ==
    /\ reg_last.op = "sweep"
    /\ \E n \in reg_last.ret : GetService(n) = NoInfo

\* C9: a sweep deletes an entry only if its heartbeat age is strictly above
\* service_timeout, and leaves every entry of age at most service_timeout in
\* the map as it was.
C9_SweepKeepsFresh ==
    [][reg_last'.op = "sweep" =>
           \A n \in DOMAIN registry_services :
               LET age == now - registry_services[n].last_heartbeat IN
               /\ (n \notin DOMAIN registry_services') => age > service_timeout
               /\ (age <= service_timeout) =>
                      /\ n \in DOMAIN registry_services'
                      /\ registry_services'[n] = registry_services[n]]_vars

\* A sweep has deleted one entry and kept one whose age equals the timeout.
C9_Witness ==
    /\ reg_last.op = "sweep"
    /\ reg_last.ret # {}
    /\ \E n \in DOMAIN registry_services :
           now - registry_services[n].last_heartbeat = service_timeout

\* C10 as stated: a discover_service(n) call made less than cache_ttl after
\* discover_service stored an entry for n returns the stored ServiceInfo, does
\* not read the registry and leaves the cache as it was.
C10_HitSinceStored ==
    [][\A n \in Names :
           (/\ reg_last'.op = "discover_service"
            /\ reg_last'.name = n
            /\ n \in DOMAIN stored
            /\ now - stored[n].timestamp < cache_ttl)
               => /\ reg_last'.ret = stored[n].service_info
                  /\ ~reg_last'.read
                  /\ cache' = cache]_vars

\* C10: a discover_service(n) call made less than cache_ttl after
\* discover_service stored an entry for n, with no clear_cache() since (the
\* cache still holds the entry), returns the stored ServiceInfo, does not read
\* the registry and leaves the cache as it was.
C10_CacheHit ==
    [][\A n \in Names :
           (/\ reg_last'.op = "discover_service"
            /\ reg_last'.name = n
            /\ n \in DOMAIN cache
            /\ cache[n] = stored[n]
            /\ now - stored[n].timestamp < cache_ttl)
               => /\ reg_last'.ret = stored[n].service_info
                  /\ ~reg_last'.read
                  /\ cache' = cache]_vars

\* discover_service has answered from the cache while the registry holds
\* another ServiceInfo for the name, or none.
C10_Witness ==
    /\ reg_last.op = "discover_service"
    /\ ~reg_last.read
    /\ Ref(GetService(reg_last.name)) # reg_last.ret

\* C11: a discover_service(n) call made while the cache holds no entry for n,
\* or one whose age is at least cache_ttl, reads the registry and returns
\* what the registry holds for n at that moment, None when it holds nothing.
C11_ExpiredReadsRegistry ==
    [][\A n \in Names :
           (/\ reg_last'.op = "discover_service"
            /\ reg_last'.name = n
            /\ (n \in DOMAIN cache => now - cache[n].timestamp >= cache_ttl))
               => /\ reg_last'.read
                  /\ reg_last'.ret = Ref(GetService(n))]_vars

\* discover_service has returned None for a name that is no longer registered
\* while the cache still holds its expired entry.
C11_Witness ==
    /\ reg_last.op = "discover_service"
    /\ reg_last.read
    /\ reg_last.ret = Ref(NoInfo)
    /\ reg_last.name \in DOMAIN cache
    /\ now - cache[reg_last.name].timestamp >= cache_ttl

\* C12: a discover_service(n) call that finds n absent from the registry
\* leaves the cache as it was, and the discover_service(n) call that follows a
\* None answer returns the service the registry holds for n by then, however
\* little time has passed.
C12_NegativeNotCached ==
    [][\A n \in Names :
           (reg_last'.op = "discover_service" /\ reg_last'.name = n)
               => /\ reg_last'.ret = Ref(NoInfo) => cache' = cache
                  /\ (answered[n] = "none" /\ n \in DOMAIN registry_services)
                         => reg_last'.ret = Ref(registry_services[n])]_vars

\* discover_service has returned a service right after it answered None for
\* the same name, with no time passed since construction.
C12_Witness ==
    /\ reg_last.op = "discover_service"
    /\ answered[reg_last.name] = "found_after_none"
    /\ reg_last.ret = Ref(GetService(reg_last.name))
    /\ now = 0

\* ------------------------------------------------------------------------
\* Properties of the health monitor and of the orchestrator
\* ------------------------------------------------------------------------

\* C13: a probe that changes the status of the ServiceHealth it updates runs
\* the health-change callbacks once, and a probe that leaves the status as it
\* was does not run them; so a successful probe of a HEALTHY record never
\* notifies.
C13_NotifyOncePerChange ==
    [][orch_last'.op = "probe_end" =>
           /\ orch_last'.notified =
                  IF orch_last'.ret[1] # orch_last'.ret[2] THEN 1 ELSE 0
           /\ orch_last'.ret = <<HEALTHY, HEALTHY>> => orch_last'.notified = 0]_vars

\* A successful probe has found its record HEALTHY and has not notified, with
\* a callback registered.
C13_Witness ==
    /\ orch_last.op = "probe_end"
    /\ orch_last.ret = <<HEALTHY, HEALTHY>>
    /\ orch_last.notified = 0
    /\ Len(health_change_callbacks) > 0

\* C14: add_service leaves the record of the service in UNKNOWN; a probe
\* moves its record to HEALTHY or to UNHEALTHY, from any status, and never to
\* UNKNOWN.
C14_HealthStateMachine ==
    [][/\ orch_last'.op = "add_service" =>
              LET n == orch_last'.name IN
              /\ n \in DOMAIN health_status'
              /\ healths'[health_status'[n]] = ServiceHealth(n, UNKNOWN, 0)
       /\ orch_last'.op = "probe_end" =>
              /\ orch_last'.ret[1] \in Statuses
              /\ orch_last'.ret[2] \in {HEALTHY, UNHEALTHY}]_vars

\* A probe has moved a record from UNHEALTHY to HEALTHY.
C14_Witness ==
    /\ orch_last.op = "probe_end"
    /\ orch_last.ret = <<UNHEALTHY, HEALTHY>>

C16_HealthChangeReaction ==
    [][orch_last'.op = "_handle_health_change" =>
           LET health == orch_last'.ret
               n == orch_last'.name
               due == /\ health.status = UNHEALTHY
                      /\ health.consecutive_failures >= 3
                      /\ auto_restart_enabled
               attempts == IF n \in DOMAIN restart_attempts
                           THEN restart_attempts[n] ELSE 0
           IN /\ orch_last'.restarted = IF due THEN 1 ELSE 0
              /\ ~due => restart_attempts' = restart_attempts
              /\ (due /\ attempts < max_restart_attempts) =>
                     /\ n \in DOMAIN restart_attempts'
                     /\ restart_attempts'[n] = attempts + 1]_vars

\* The handler was given an UNHEALTHY record with 3 failures and has made
\* the first restart attempt of the service.
C16_Witness ==
    /\ orch_last.op = "_handle_health_change"
    /\ orch_last.ret.status = UNHEALTHY
    /\ orch_last.ret.consecutive_failures = 3
    /\ orch_last.restarted = 1
    /\ orch_last.name \in DOMAIN restart_attempts
    /\ restart_attempts[orch_last.name] = 1

\* The ServiceHealth that the monitor holds for n in the maps hs and h, None
\* if it holds none.
HealthOf(n, hs, h) == IF n \in DOMAIN hs THEN h[hs[n]] ELSE None

\* C17: deploy_service(info) returns True and leaves the registry mapping the
\* name to info (a new object, not the one held before), the monitor listing
\* the name with a record in UNKNOWN, and the restart attempts of the name at
\* 0, whatever they were before.
C17_DeployEffect ==
    [][\A n \in Names :
           (orch_last'.op = "deploy_service" /\ orch_last'.name = n) =>
               /\ orch_last'.ret = TRUE
               /\ n \in DOMAIN registry_services'
               /\ registry_services'[n].name = n
               /\ n \in DOMAIN registry_services =>
                      registry_services'[n].id # registry_services[n].id
               /\ \E i \in 1..Len(hm_services') : hm_services'[i] = n
               /\ HealthOf(n, health_status', healths') = ServiceHealth(n, UNKNOWN, 0)
               /\ n \in DOMAIN restart_attempts'
               /\ restart_attempts'[n] = 0]_vars

\* A service was deployed again while a probe of it was in flight: the list
\* has it twice and the probe holds the record of the first deployment, which
\* is no longer UNKNOWN.
C17_Witness ==
    /\ orch_last.op = "deploy_service"
    /\ Len(hm_services) = 2
    /\ hm_services[1] = orch_last.name
    /\ hm_services[2] = orch_last.name
    /\ \E k \in 1..Len(probes) :
           /\ probes[k].name = orch_last.name
           /\ probes[k].health # 0
           /\ probes[k].health # health_status[orch_last.name]
           /\ healths[probes[k].health].status # UNKNOWN

\* C18: undeploy_service(n) returns True and leaves no list entry and no
\* health record for n in the monitor, no entry for n in the registry, no
\* restart attempts and no deployment task for n, and what is held for every
\* other name as it was.
C18_UndeployEffect ==
    [][\A n \in Names :
           (orch_last'.op = "undeploy_service" /\ orch_last'.name = n) =>
               /\ orch_last'.ret = TRUE
               /\ \A i \in 1..Len(hm_services') : hm_services'[i] # n
               /\ n \notin DOMAIN health_status'
               /\ n \notin DOMAIN registry_services'
               /\ n \notin DOMAIN restart_attempts'
               /\ n \notin DOMAIN deployment_tasks'
               /\ hm_services' = SelectSeq(hm_services, LAMBDA m : m # n)
               /\ \A m \in Names \ {n} :
                      /\ HealthOf(m, health_status', healths')
                             = HealthOf(m, health_status, healths)
                      /\ Get(registry_services', m, NoInfo)
                             = Get(registry_services, m, NoInfo)
                      /\ Get(restart_attempts', m, None)
                             = Get(restart_attempts, m, None)
                      /\ Get(deployment_tasks', m, None)
                             = Get(deployment_tasks, m, None)]_vars

\* A registered service was undeployed while another one, restarted once and
\* no longer UNKNOWN, stays deployed.
C18_Witness ==
    /\ orch_last.op = "undeploy_service"
    /\ reg_last = RegCalled("unregister_service", orch_last.name, TRUE, FALSE)
    /\ \E m \in DOMAIN health_status :
           /\ healths[health_status[m]].status # UNKNOWN
           /\ m \in DOMAIN registry_services
           /\ m \in DOMAIN restart_attempts
           /\ restart_attempts[m] = 1

\* C19: whatever start() calls are made on a ServiceRegistry or on a
\* HealthMonitor, at most one sweep task and at most one probe-loop task
\* exists at any time, and a start() that finds a task creates none: the task
\* and the number of tasks are what they were.
C19_StartSpawnsOnce ==
    [][/\ sweep_tasks' <= 1
       /\ monitor_tasks' <= 1
       /\ reg_last'.op = "start" /\ cleanup_task # "none"
              => cleanup_task' = cleanup_task /\ sweep_tasks' = sweep_tasks
       /\ orch_last'.op = "monitor_start" /\ monitor_task # "none"
              => /\ monitor_task' = monitor_task
                 /\ monitor_tasks' = monitor_tasks]_vars

\* A start() has returned while the task of an earlier start() was asleep:
\* on the registry, or on the monitor.
C19_Witness ==
    \/ reg_last.op = "start" /\ cleanup_task = "sleeping" /\ sweep_tasks = 1
    \/ /\ orch_last.op = "monitor_start" /\ monitor_task = "sleeping"
       /\ monitor_tasks = 1

\* C21: register_service returns True and leaves, under the name, the record
\* it was given with last_heartbeat set to the time of the call, whatever the
\* caller had put there; a record held before under the name is gone, the
\* other names keep theirs, get_service(name) returns the new record, and
\* list_services holds at most one record of any name.
C21_RegisterUpserts ==
    [][/\ \A n \in Names :
              reg_last'.op = "register_service" /\ reg_last'.name = n
                  => /\ reg_last'.ret = TRUE
                     /\ GetService(n)' # NoInfo
                     /\ GetService(n)'.name = n
                     /\ GetService(n)'.last_heartbeat = now
                     /\ GetService(n)'.id # GetService(n).id
                     /\ DOMAIN registry_services' =
                            DOMAIN registry_services \cup {n}
                     /\ \A m \in Names \ {n} : GetService(m)' = GetService(m)
       /\ \A n \in Names :
              Cardinality({r \in ListServices' : r.name = n}) <= 1]_vars

\* A name has been registered again, after the clock moved, while the record
\* of its earlier registration was held.
C21_Witness ==
    /\ reg_last.op = "register_service"
    /\ now > 0
    /\ \E n \in Names :
           /\ reg_last.name = n
           /\ n \in DOMAIN registry_services
           /\ registry_services[n].id = 2
           /\ registry_services[n].last_heartbeat = now
    /\ Cardinality(ListServices) = 2

\* C22: unregister_service(name) and heartbeat(name) return True exactly when
\* the name is registered at the call.  For a name that is not, they return
\* False and leave the registry as it is.  For one that is, unregister_service
\* removes its entry and heartbeat sets its last_heartbeat to the time of the
\* call, and neither touches another entry.  A name that was unregistered or
\* evicted by the sweep is not in the registry, as one never registered.
C22_NotFoundIsValue ==
    [][\A n \in Names :
        /\ reg_last'.op \in {"unregister_service", "heartbeat"}
           /\ reg_last'.name = n
              => /\ reg_last'.ret = (n \in DOMAIN registry_services)
                 /\ n \notin DOMAIN registry_services
                        => registry_services' = registry_services
                 /\ \A m \in Names \ {n} : GetService(m)' = GetService(m)
        /\ reg_last'.op = "unregister_service" /\ reg_last'.name = n
              => GetService(n)' = NoInfo
        /\ reg_last'.op = "heartbeat" /\ reg_last'.name = n
           /\ n \in DOMAIN registry_services
              => GetService(n)' =
                     [GetService(n) EXCEPT !.last_heartbeat = now]
        /\ reg_last'.op = "sweep" /\ n \in reg_last'.ret
              => GetService(n)' = NoInfo]_vars

\* heartbeat has returned False for a name that is not registered, while the
\* other name is registered and the clock has moved.
C22_Witness ==
    /\ reg_last.op = "heartbeat"
    /\ reg_last.ret = FALSE
    /\ reg_last.name \notin DOMAIN registry_services
    /\ registry_services # EmptyDict
    /\ now > 0

\* C20: a stop() of the registry or of the monitor returns with no task left
\* running, whether it found a task or not (before any start() it finds none);
\* a task that has ended stays ended, and from then on there is no sweep, no
\* new probe, no probe result and no health callback.
C20_StopAwaitsTask ==
    [][/\ reg_last'.op = "stop"
              => cleanup_task' \in {"none", "done"} /\ sweep_tasks' = 0
       /\ cleanup_task = "done"
              => /\ cleanup_task' = "done"
                 /\ reg_last'.op # "sweep"
                 /\ DOMAIN registry_services \subseteq DOMAIN registry_services'
       /\ orch_last'.op = "monitor_stop"
              => /\ monitor_task' \in {"none", "done"}
                 /\ monitor_tasks' = 0
                 /\ probes' = <<>>
       /\ monitor_task = "done"
              => /\ monitor_task' = "done"
                 /\ probes' = <<>>
                 /\ orch_last'.op \notin
                        {"cycle_begin", "probe_begin", "probe_end"}
                 /\ orch_last'.notified = 0]_vars

\* A stop() has returned after the task it cancelled ended: on a registry
\* that holds a service once the sweep interval has passed, or on a monitor
\* whose task had probed a service.
C20_Witness ==
    \/ /\ reg_last.op = "stop" /\ cleanup_task = "done" /\ ~stop_waiting
       /\ now >= cleanup_interval
       /\ DOMAIN registry_services # {}
    \/ /\ orch_last.op = "monitor_stop" /\ monitor_task = "done"
       /\ ~hm_stop_waiting
       /\ \E id \in DOMAIN healths : healths[id].status # UNKNOWN

\* The ServiceHealth objects that the started probes of name n hold.
ProbedHealths(n) ==
    {probes[k].health :
        k \in {j \in 1..Len(probes) :
                  probes[j].name = n /\ probes[j].health # 0}}

\* C23: a failed probe (a status other than 200, a transport exception, a
\* timeout) leaves the consecutive_failures of the record it probed one above
\* what it was, a probe classified HEALTHY leaves it at 0, and nothing else
\* changes the counter of a record: a step that is not the end of a probe
\* leaves every name with the record it had, or with a new record in UNKNOWN
\* whose counter is 0.
C23_FailureCounter ==
    [][/\ orch_last'.op = "probe_end" =>
              LET n == orch_last'.name
                  held == ProbedHealths(n)
                  id == CHOOSE h \in held : TRUE
                  old == healths[id]
                  count == IF orch_last'.ret[2] = HEALTHY THEN 0
                           ELSE old.consecutive_failures + 1
              IN /\ Cardinality(held) = 1
                 /\ old.status = orch_last'.ret[1]
                 /\ n \in DOMAIN health_status /\ health_status[n] = id
                        => /\ HealthOf(n, health_status', healths').status
                                = orch_last'.ret[2]
                           /\ HealthOf(n, health_status', healths')
                                  .consecutive_failures = count
                 /\ \A j \in 1..Len(probes') :
                        probes'[j].name = n
                            => healths'[probes'[j].health]
                                   .consecutive_failures = count
                 /\ \A m \in Names \ {n} :
                        HealthOf(m, health_status', healths')
                            = HealthOf(m, health_status, healths)
       /\ orch_last'.op # "probe_end" =>
              \A n \in DOMAIN health_status \cap DOMAIN health_status' :
                  \/ HealthOf(n, health_status', healths')
                         = HealthOf(n, health_status, healths)
                  \/ HealthOf(n, health_status', healths')
                         = ServiceHealth(n, UNKNOWN, 0)]_vars

\* A probe that ended in an exception has raised the counter of a record
\* from 1 to 2.
C23_Witness ==
    /\ orch_last.op = "probe_end"
    /\ orch_last.ret = <<UNHEALTHY, UNHEALTHY>>
    /\ \E n \in DOMAIN health_status :
           /\ orch_last.name = n
           /\ healths[health_status[n]].consecutive_failures = 2
           /\ healths[health_status[n]].error_message = "refused"

\* C25: a probe whose request ends in a status other than 200, in a transport
\* exception or in a timeout returns with the record it probed in UNHEALTHY
\* and the error text in its error_message ("HTTP" and the status, or the
\* text of the exception), and the monitoring loop is still running: it
\* awaits the rest of the cycle's probes, or sleeps before its next cycle.
C25_ProbeFaultIsState ==
    [][orch_last'.op = "probe_end" /\ orch_last'.outcome # Response(200) =>
           LET n == orch_last'.name
               out == orch_last'.outcome
               id == CHOOSE h \in ProbedHealths(n) : TRUE
               text == IF out = Response(500) THEN "HTTP 500" ELSE out.text
               new == HealthOf(n, health_status', healths')
           IN /\ orch_last'.ret[2] = UNHEALTHY
              /\ n \in DOMAIN health_status /\ health_status[n] = id
                     => new.status = UNHEALTHY /\ new.error_message = text
              /\ \A j \in 1..Len(probes') :
                     probes'[j].name = n
                         => /\ healths'[probes'[j].health].status = UNHEALTHY
                            /\ healths'[probes'[j].health].error_message = text
              /\ monitor_tasks' = 1
              /\ monitor_task' =
                     IF probes' = <<>> THEN "sleeping" ELSE "gathering"]_vars

\* The loop has begun a cycle after one in which the probe of a service
\* timed out and the probe of another got a status other than 200.
C25_Witness ==
    /\ orch_last.op = "cycle_begin"
    /\ monitor_task = "gathering"
    /\ \E n, m \in DOMAIN health_status :
           /\ healths[health_status[n]].status = UNHEALTHY
           /\ healths[health_status[n]].error_message = ""
           /\ healths[health_status[m]].status = UNHEALTHY
           /\ healths[health_status[m]].error_message = "HTTP 500"

\* C24: a probe that changes the status of its record calls every registered
\* callback once, in the order of registration, whether or not a callback
\* before it raised; whatever the callbacks do, the record holds the status
\* the probe set, the other probes of the cycle are still there, and the loop
\* is running: it awaits them, or sleeps before its next cycle.
C24_CallbackIsolation ==
    [][orch_last'.op = "probe_end" =>
           LET n == orch_last'.name
               id == CHOOSE h \in ProbedHealths(n) : TRUE
           IN /\ orch_last'.ret[1] # orch_last'.ret[2]
                     => orch_last'.invoked =
                            [i \in 1..Len(health_change_callbacks) |-> i]
              /\ orch_last'.ret[1] = orch_last'.ret[2]
                     => orch_last'.invoked = <<>>
              /\ n \in DOMAIN health_status /\ health_status[n] = id
                     => HealthOf(n, health_status', healths').status
                            = orch_last'.ret[2]
              /\ Len(probes') = Len(probes) - 1
              /\ health_change_callbacks' = health_change_callbacks
              /\ monitor_tasks' = 1
              /\ monitor_task' =
                     IF probes' = <<>> THEN "sleeping" ELSE "gathering"]_vars

\* A probe has changed a status and called a callback that raises and then
\* the orchestrator's handler, while the probe of another service is under
\* way.
C24_Witness ==
    /\ orch_last.op = "probe_end"
    /\ orch_last.invoked = <<1, 2>>
    /\ health_change_callbacks = <<RAISES, HANDLER>>
    /\ probes # <<>>

\* C26: every connection counter is at least 0 in every state.  For a name
\* that has a counter, increment_connection adds 1 to it and
\* decrement_connection subtracts 1 from it, except that a counter at 0 stays
\* at 0; for a name that has none, both leave the counters as they are and
\* create no entry.  Neither touches the counter of another name.
C26_ConnectionsFloored ==
    [][/\ \A n \in DOMAIN connection_counts' : connection_counts'[n] >= 0
       /\ \A n \in Names :
              /\ lb_last' = Called("increment_connection", n) =>
                     connection_counts' =
                         IF n \in DOMAIN connection_counts
                         THEN [connection_counts EXCEPT ![n] = @ + 1]
                         ELSE connection_counts
              /\ lb_last' = Called("decrement_connection", n) =>
                     connection_counts' =
                         IF n \in DOMAIN connection_counts
                         THEN [connection_counts EXCEPT
                                  ![n] = IF @ = 0 THEN 0 ELSE @ - 1]
                         ELSE connection_counts]_vars

\* decrement_connection was called for a service whose counter is 0 after
\* it, while another service has connections.
C26_Witness ==
    \E n \in DOMAIN connection_counts :
        /\ lb_last = Called("decrement_connection", n)
        /\ connection_counts[n] = 0
        /\ \E m \in DOMAIN connection_counts : connection_counts[m] > 0

\* C27: a step of the monitor (the end of a probe and the status transition
\* it makes among them) changes no circuit-breaker flag, no failure count and
\* nothing else of the load balancer; a call of the load balancer,
\* record_failure and record_success among them, changes no ServiceHealth
\* record and nothing else of the monitor; and what get_next_service returns
\* is decided by the flags alone: None exactly when every listed service has
\* its flag set, whatever the health records say.
C27_BalancerDecoupled ==
    [][/\ <<hmfields, orchfields>>' # <<hmfields, orchfields>>
              => <<lbconfig, lbfields, lb_last>>' = <<lbconfig, lbfields, lb_last>>
       /\ <<lbfields, lb_last>>' # <<lbfields, lb_last>>
              => <<hmfields, orchfields, orch_last>>'
                     = <<hmfields, orchfields, orch_last>>
       /\ lb_last'.op = "get_next_service" /\ orch_last' = orch_last
              => (lb_last'.name = None)
                     = (\A i \in 1..Len(services) : BreakerOpen(services[i]))
      ]_vars

\* get_next_service has returned a service that the monitor holds UNHEALTHY
\* after a second failed probe, the breaker of the service being closed after
\* a record_success.
C27_Witness ==
    /\ lb_last.op = "get_next_service"
    /\ lb_last.name = "a"
    /\ streak["a"] = 0
    /\ "a" \in DOMAIN failure_counts
    /\ "a" \in DOMAIN health_status
    /\ healths[health_status["a"]].status = UNHEALTHY
    /\ healths[health_status["a"]].consecutive_failures = 2

\* C28: under least_connections, get_next_service returns None when no
\* listed service is available, and otherwise a list entry that is available,
\* whose connection counter no available entry undercuts, and before which
\* every available entry has a larger counter; the call changes no counter.
C28_LeastConnections ==
    [][strategy = LEAST_CONNECTIONS /\ lb_last'.op = "get_next_service" =>
           /\ connection_counts' = connection_counts
           /\ IF lb_last'.name = None
              THEN AvailablePositions = {}
              ELSE LET pos == lb_last'.pos
                       count(i) == Get(connection_counts, services[i], 0)
                   IN /\ pos \in AvailablePositions
                      /\ services[pos] = lb_last'.name
                      /\ \A i \in AvailablePositions :
                             /\ count(pos) <= count(i)
                             /\ i < pos => count(i) > count(pos)]_vars

\* Under least_connections: the second list entry was returned because the
\* first, though available, has more connections.
C28_Witness ==
    /\ strategy = LEAST_CONNECTIONS
    /\ lb_last.op = "get_next_service"
    /\ lb_last.pos = 2
    /\ 1 \in AvailablePositions
    /\ connection_counts[services[1]] > connection_counts[services[2]]

\* C29: right after a cycle has begun there is one probe for every entry of
\* the monitor's list; a probe that has started can end, updating its record
\* and notifying, whatever the other probes of the cycle are doing; and while
\* a probe of a cycle is left the loop is gathering: it is not at a point
\* where the next cycle begins.
C29_FanOutAndJoin ==
    /\ orch_last.op = "cycle_begin" /\ monitor_task # "done"
           => /\ Len(probes) = Len(hm_services)
              /\ \A i \in 1..Len(hm_services) :
                     probes[i].name = hm_services[i]
    /\ \A k \in 1..Len(probes) :
           probes[k].health # 0 => ENABLED ProbeEnd(k, Response(200))
    /\ probes # <<>> => monitor_task \in {"gathering", "cancelling"}

\* In a cycle over two services, the probe of the second has ended and
\* notified a change while the probe of the first is still under way.
C29_Witness ==
    /\ orch_last.op = "probe_end"
    /\ orch_last.name = "b"
    /\ orch_last.invoked # <<>>
    /\ hm_services = <<"a", "b">>
    /\ Len(probes) = 1
    /\ probes[1].name = "a"
    /\ healths[health_status["a"]].status = UNKNOWN

\* C30: with circuit_breaker_enabled false, record_failure leaves every field
\* of the load balancer as it is, no breaker flag is ever set, and every
\* entry of the service list is among the available services.
C30_DisabledBreaker ==
    [][~circuit_breaker_enabled =>
           /\ \A n \in Names :
                  lb_last' = Called("record_failure", n)
                      => lbfields' = lbfields
           /\ \A n \in DOMAIN circuit_breaker_states' :
                  circuit_breaker_states'[n] = FALSE
           /\ AvailablePositions' = 1..Len(services')
           /\ lb_last'.op = "get_next_service" /\ services # <<>>
                  => lb_last'.name # None]_vars

\* With the breaker disabled, get_next_service has returned a service after
\* more record_failure calls for it than the threshold.
C30_Witness ==
    /\ ~circuit_breaker_enabled
    /\ lb_last.op = "get_next_service"
    /\ lb_last.name \in Names
    /\ streak[lb_last.name] > circuit_breaker_threshold

\* C31: with _handle_health_change as the only callback, the record of every
\* notification with status UNHEALTHY has consecutive_failures = 1 (the probe
\* found its counter at 0), the end of a probe never has the handler call
\* restart_service and leaves restart_attempts as they were, and a step other
\* than a direct restart_service leaves every restart-attempt counter at 0
\* or at what it was.
C31_NotifiedOnFirstFailure ==
    [][/\ orch_last'.op = "probe_end" =>
              LET held == ProbedHealths(orch_last'.name)
                  old == healths[CHOOSE h \in held : TRUE]
              IN /\ (orch_last'.notified = 1 /\ orch_last'.ret[2] = UNHEALTHY)
                        => old.consecutive_failures + 1 = 1
                 /\ orch_last'.restarted = 0
                 /\ restart_attempts' = restart_attempts
       /\ orch_last'.op # "restart_service" =>
              \A n \in DOMAIN restart_attempts' :
                  \/ restart_attempts'[n] = 0
                  \/ /\ n \in DOMAIN restart_attempts
                     /\ restart_attempts'[n] = restart_attempts[n]]_vars

\* The handler, the only callback, was notified that a deployed service went
\* from HEALTHY to UNHEALTHY on its first failure: no restart was attempted.
C31_Witness ==
    /\ health_change_callbacks = <<HANDLER>>
    /\ orch_last.op = "probe_end"
    /\ orch_last.ret = <<HEALTHY, UNHEALTHY>>
    /\ orch_last.invoked = <<1>>
    /\ orch_last.name \in DOMAIN restart_attempts
    /\ restart_attempts[orch_last.name] = 0
    /\ orch_last.name \in DOMAIN health_status
    /\ healths[health_status[orch_last.name]].consecutive_failures = 1

\* ------------------------------------------------------------------------
\* The orchestrator over a registry whose sweep runs
\* ------------------------------------------------------------------------

InitSwept == RegInit /\ LBIdle /\ OrchIdle

\* One deployment call, one heartbeat, or one step of the registry's sweep
\* task or of the clock.
NextSwept ==
    \/ Tick /\ UNCHANGED <<lbvars, orchvars, history>>
    \/ Start /\ UNCHANGED <<lbvars, orchvars, history>>
    \/ TaskBegin /\ UNCHANGED <<lbvars, orchvars, history>>
    \/ SweepStep /\ UNCHANGED <<lbvars, orchvars, history>>
    \/ \E n \in Names : Heartbeat(n) /\ UNCHANGED <<lbvars, orchvars, history>>
    \/ \E n \in Names : DeployService(n) /\ UNCHANGED <<lbvars, history, restarts>>
    \/ \E n \in Names : UndeployService(n) /\ UNCHANGED <<lbvars, history, restarts>>

\* The orchestrator's deployments over a started registry.
SpecSwept == InitSwept /\ [][NextSwept]_vars

\* health_monitor.services holds an entry of name n.
Tracked(n) == \E i \in 1..Len(hm_services) : hm_services[i] = n

\* C32, as stated: under deploy_service, undeploy_service, heartbeat and the
\* registry sweep, every name in health_monitor.services is a key of the
\* registry.
C32_TrackedAreRegistered ==
    \A n \in Names : Tracked(n) => n \in DOMAIN registry_services

\* C32, amended: under deploy_service, undeploy_service, heartbeat and the
\* registry sweep, a name in health_monitor.services is missing from the
\* registry's keys after a step only if it was tracked and missing before the
\* step, or the step is a sweep that deleted it as stale: deploy_service,
\* undeploy_service and heartbeat never leave a tracked name unregistered
\* that was registered before, and the sweep does not remove a name from the
\* monitor.
C32_TrackedUntilSwept ==
    [][\A n \in Names :
           (Tracked(n)' /\ n \notin DOMAIN registry_services')
               => /\ Tracked(n)
                  /\ \/ n \notin DOMAIN registry_services
                     \/ /\ reg_last'.op = "sweep"
                        /\ n \in StaleServices
                        /\ hm_services' = hm_services]_vars

\* The sweep has deleted the stale entry of b, which the monitor still
\* tracks; a, whose heartbeat kept it fresh, is tracked and registered.
C32_Witness ==
    /\ reg_last.op = "sweep"
    /\ reg_last.ret = {"b"}
    /\ Tracked("a") /\ Tracked("b")
    /\ DOMAIN registry_services = {"a"}
    /\ registry_services["a"].last_heartbeat > 0

\* ------------------------------------------------------------------------
\* The service lists of the load balancer and of the health monitor
\* ------------------------------------------------------------------------

InitLists == LBIdle /\ RegIdle /\ OrchIdle

\* One call that adds a service to, or removes it from, the load balancer's
\* list or the health monitor's.
NextLists ==
    \/ \E n \in Names : AddService(n) /\ UNCHANGED <<history, regvars, orchvars>>
    \/ \E n \in Names : RemoveService(n) /\ UNCHANGED <<history, regvars, orchvars>>
    \/ \E n \in Names : HMAddService(n) /\ UNCHANGED <<lbvars, history, restarts, regvars>>
    \/ \E n \in Names : HMRemoveService(n) /\ UNCHANGED <<lbvars, history, restarts, regvars>>
    \/ \E n \in Names : DeployService(n) /\ UNCHANGED <<lbvars, history, restarts>>
    \/ \E n \in Names : UndeployService(n) /\ UNCHANGED <<lbvars, history, restarts>>

\* The load balancer and the orchestrator's health monitor, their lists
\* changing.
SpecLists == InitLists /\ [][NextLists]_vars

\* The number of entries of name n in the list s.
Entries(s, n) == Cardinality({i \in 1..Len(s) : s[i] = n})

\* C33: after any sequence of add_service/remove_service and
\* deploy_service/undeploy_service, the service list of the LoadBalancer and
\* that of the HealthMonitor hold at most one entry per service name.
C33_OneEntryPerName ==
    \A n \in Names :
        /\ Entries(services, n) <= 1
        /\ Entries(hm_services, n) <= 1

\* C34: a discover_service(n) call that returns a service at time t either
\* reads the registry, which holds n at t, or answers from the entry that
\* the last registry read of discover_service stored for n, whose timestamp
\* lies in (t - cache_ttl, t]; an entry is stored only by a read that finds n
\* in the registry, with the time of that read, and an answer from the cache
\* leaves it as it was.  So a name that the registry no longer holds is
\* answered with None once cache_ttl has passed since the read that cached
\* it, whatever calls came in between.
C34_BoundedStaleness ==
    [][/\ \A n \in Names :
              (reg_last'.op = "discover_service" /\ reg_last'.name = n) =>
                  /\ reg_last'.ret # Ref(NoInfo) =>
                         \/ /\ reg_last'.read
                            /\ n \in DOMAIN registry_services
                            /\ reg_last'.ret = Ref(registry_services[n])
                         \/ /\ ~reg_last'.read
                            /\ n \in DOMAIN stored
                            /\ reg_last'.ret = stored[n].service_info
                            /\ stored[n].timestamp > now - cache_ttl
                            /\ stored[n].timestamp <= now
                            /\ stored' = stored
                  /\ (/\ n \notin DOMAIN registry_services
                      /\ n \in DOMAIN stored =>
                             now - stored[n].timestamp >= cache_ttl)
                         => reg_last'.ret = Ref(NoInfo)
       /\ \A n \in DOMAIN stored' :
              (n \notin DOMAIN stored \/ stored'[n] # stored[n]) =>
                  /\ reg_last'.op = "discover_service"
                  /\ reg_last'.name = n
                  /\ reg_last'.read
                  /\ n \in DOMAIN registry_services
                  /\ stored'[n] = [service_info |-> Ref(registry_services[n]),
                                   timestamp |-> now]]_vars

\* With cache_ttl = 2, discover_service has answered from an entry stored one
\* time unit ago, for a name that the registry no longer holds.
C34_Witness ==
    /\ cache_ttl = 2
    /\ reg_last.op = "discover_service"
    /\ ~reg_last.read
    /\ reg_last.ret # Ref(NoInfo)
    /\ reg_last.name \notin DOMAIN registry_services
    /\ reg_last.name \in DOMAIN stored
    /\ now - stored[reg_last.name].timestamp = 1

\* C35: with the circuit breaker enabled (the threshold being at least 1),
\* every service in the load balancer's list has a breaker flag and a
\* failure count, and the flag is true exactly when the count has reached
\* circuit_breaker_threshold.
C35_FlagIffThreshold ==
    (circuit_breaker_enabled /\ circuit_breaker_threshold >= 1) =>
        \A n \in ServiceNames :
            /\ n \in DOMAIN circuit_breaker_states
            /\ n \in DOMAIN failure_counts
            /\ circuit_breaker_states[n]
                   <=> failure_counts[n] >= circuit_breaker_threshold

\* With a threshold of 2, one listed service has failed once and its breaker
\* is closed, the other has failed more than twice and its breaker is open.
C35_Witness ==
    /\ circuit_breaker_enabled
    /\ circuit_breaker_threshold = 2
    /\ lb_last.op = "record_failure"
    /\ \E n, m \in ServiceNames :
           /\ failure_counts[n] = 1 /\ ~circuit_breaker_states[n]
           /\ failure_counts[m] = 3 /\ circuit_breaker_states[m]

\* The monitor's probe loop is alive: created and neither ended nor being
\* cancelled.
MonitorAlive == monitor_task \in {"pending", "sleeping", "gathering"}

\* C36: whenever the most recent lifecycle call of a ServiceRegistry, or of a
\* HealthMonitor, is a start() (no stop() is under way), a live background
\* task exists: start() after stop() resumes the loop.
C36_StartResumesLoop ==
    /\ (reg_last.op = "start" /\ ~stop_waiting) => SweepAlive
    /\ (orch_last.op = "monitor_start" /\ ~hm_stop_waiting) => MonitorAlive

\* ------------------------------------------------------------------------
\* Consecutive get_next_service calls
\* ------------------------------------------------------------------------

\* The names of the entries of available_services.
AvailableNames == {services[i] : i \in AvailablePositions}

\* What a get_next_service call that is about to return the entry at pos
\* leaves on record: the entry, its name, how many entries and how many
\* distinct names were available, and whether the list or the available set
\* has changed since the call.
Returned(pos) ==
    [name |-> services[pos], pos |-> pos,
     entries |-> Len(available_services),
     distinct |-> Cardinality(AvailableNames), changed |-> FALSE]

\* The last two get_next_service calls, the later one last, as long as both
\* returned a service.
LastTwoAfter ==
    IF lb_last'.op = "get_next_service"
    THEN IF lb_last'.pos = 0 THEN <<>>
         ELSE IF history = <<>> THEN <<Returned(lb_last'.pos)>>
         ELSE <<history[Len(history)], Returned(lb_last'.pos)>>
    ELSE IF /\ history # <<>>
            /\ \/ services' # services
               \/ available_services' # available_services
         THEN [history EXCEPT ![Len(history)].changed = TRUE]
         ELSE history

\* The calls that change what round robin returns (add_service,
\* remove_service, a record_failure that opens the breaker of a listed
\* service, a record_success that closes it) and get_next_service, with the
\* last two get_next_service calls recorded.
NextLastTwo ==
    \/ \E n \in Names : AddService(n) /\ history' = LastTwoAfter /\ UNCHANGED <<regvars, orchvars>>
    \/ \E n \in Names : RemoveService(n) /\ history' = LastTwoAfter /\ UNCHANGED <<regvars, orchvars>>
    \/ GetNextService /\ history' = LastTwoAfter /\ UNCHANGED <<regvars, orchvars>>
    \/ \E n \in ServiceNames :
           /\ ~BreakerOpen(n) /\ RecordFailure(n)
           /\ history' = LastTwoAfter /\ UNCHANGED <<regvars, orchvars>>
    \/ \E n \in ServiceNames :
           /\ BreakerOpen(n) /\ RecordSuccess(n)
           /\ history' = LastTwoAfter /\ UNCHANGED <<regvars, orchvars>>

\* A load balancer under round_robin whose breaker opens at the first
\* failure.
InitLastTwo == LBIdle /\ RegIdle /\ OrchIdle

\* The load balancer under round_robin, two calls at a time.
SpecLastTwo == InitLastTwo /\ [][NextLastTwo]_vars

\* C37, as stated: under round_robin, two consecutive get_next_service calls
\* do not return the same service name when at least two distinct services
\* are available at both calls, whatever add_service, remove_service,
\* record_failure and record_success calls come between the two.
C37_NeverSameTwice ==
    (/\ Len(history) = 2
     /\ history[1].distinct >= 2
     /\ history[2].distinct >= 2)
        => history[1].name # history[2].name

\* C37, amended: under round_robin, two consecutive get_next_service calls
\* do not return the same entry of the service list when at least two
\* entries are available and neither the list nor the available set has
\* changed between the two calls.
C37_NeverSameEntryTwice ==
    (/\ Len(history) = 2
     /\ ~history[1].changed
     /\ history[1].entries >= 2)
        => /\ history[2].entries = history[1].entries
           /\ history[1].pos # history[2].pos

\* Two consecutive calls, with two distinct services available and nothing
\* changed in between, have returned two services; the cursor was not 0 at
\* the first.
C37_Witness ==
    /\ Len(history) = 2
    /\ ~history[1].changed
    /\ history[1].distinct = 2
    /\ history[1].name # history[2].name
    /\ current_index > 2

====
